---- MODULE Spec2Model ----
(***************************************************************************)
(* State-machine model of the FHEVM SDK session client (class FhevmClient, *)
(* packages/fhevm-sdk/src/core).  The provider/chain resolver              *)
(* (createFhevmInstance) is an external collaborator: every call made to   *)
(* it stays pending until it resolves with an instance or throws, and it   *)
(* may report progress through onStatusChange while it is pending.         *)
(*                                                                         *)
(* The second part models the decryption coordinator (class                *)
(* DecryptionHandler) with the Authorization cache it drives; the signer,  *)
(* the key/value store, the engine's userDecrypt and the cache logic of    *)
(* FhevmDecryptionSignature are external collaborators.  Spec is the       *)
(* client alone, DecryptionSpec the coordinator alone.                     *)
(*                                                                         *)
(* The third part models the encrypted input builder (class                *)
(* EncryptionBuilder) over the engine's input object, an external          *)
(* collaborator that accumulates the entries it is given and encrypts      *)
(* them.  BuilderSpec is the builder alone.                                *)
(*                                                                         *)
(* The fourth part models the React hooks useFhevmDecrypt, useFhevmEncrypt *)
(* and useFhevmClient: the state each hook exposes, its refs, and the      *)
(* calls made through it, suspended at their awaits.  DecryptHookSpec,     *)
(* EncryptHookSpec and ClientHookSpec are one hook each; ClientHookSpec    *)
(* runs the hook over the client of the first part.  ConcurrentSpec is the *)
(* coordinator with two callers whose calls overlap.                       *)
(***************************************************************************)
EXTENDS Integers, Sequences, FiniteSets, TLC

\* ------------------------------------------------------------------------
\* Bounds of the model
\* ------------------------------------------------------------------------

\* number of initialize()/refresh() attempts one client makes
MaxAttempts == 2

\* number of distinct listener functions; odd ones return, even ones throw
MaxListeners == 2

\* number of distinct configurations (chain ids) a caller can pass
NumConfigs == 2

Attempts == 1..MaxAttempts
ListenerIds == 1..MaxListeners
Configs == 1..NumConfigs

\* `null` / `undefined` in the fields that hold an id
Null == 0

\* progress strings the resolver reports through onStatusChange
ProgressStrings == {"creating"}

NoProgress == "undefined"

\* values a resolver call can throw
AbortErrorValue == "FhevmAbortError"
ThrownValues == {"FhevmAbortError", "Error", "string", "FhevmClientError"}

Range(s) == {s[i] : i \in 1..Len(s)}

\* a listener that throws each time it is invoked
Throws(l) == l % 2 = 0

VARIABLES
    state,              \* _state, as [status, progress, instance, error]
    listeners,          \* _listeners: a Set, iterated in insertion order
    abortController,    \* _abortController: Null or the attempt that created it
    config,             \* _config: Null or the stored configuration
    initializationId,   \* _initializationId
    listenerErrors,     \* _listenerErrors: listeners whose exception was collected
    aborted,            \* signal.aborted of each attempt's AbortController
    call,               \* each initialize() call: its config while its resolver call is pending
    resolverCalls,      \* number of createFhevmInstance invocations so far
    received,           \* per listener: events seen in the latest notification
    escaped,            \* an exception left _setState during the latest notification
    lastInitConfig,     \* configuration passed to the most recent initialize(config)
    destroyedSince,     \* destroy() was called after the most recent initialize(config)
    last                \* the operation that produced the current state

vars == <<state, listeners, abortController, config, initializationId,
          listenerErrors, aborted, call, resolverCalls, received, escaped,
          lastInitConfig, destroyedSince, last>>

\* ------------------------------------------------------------------------
\* Values
\* ------------------------------------------------------------------------

NoError == [code |-> "undefined", message |-> "undefined", cause |-> "undefined"]

\* FhevmClientState, the tagged union
IdleState == [status |-> "idle", progress |-> NoProgress, instance |-> Null, error |-> NoError]
InitializingState(p) ==
    [status |-> "initializing", progress |-> p, instance |-> Null, error |-> NoError]
ReadyState(i) == [status |-> "ready", progress |-> NoProgress, instance |-> i, error |-> NoError]
ErrorState(e) == [status |-> "error", progress |-> NoProgress, instance |-> Null, error |-> e]

\* the getters of the class
IsReady == state.status = "ready"

IsInitializingNotReady == state.status \notin {"ready", "idle"}

IsInitializing == state.status = "initializing"
Instance == IF state.status = "ready" THEN state.instance ELSE Null
ErrorOf == IF state.status = "error" THEN state.error ELSE NoError
GetListenerCount == Len(listeners)

\* a FhevmClientError the resolver itself throws
ResolverClientError ==
    [code |-> "RESOLVER_ERROR", message |-> "resolver failed", cause |-> "undefined"]

\* error instanceof Error ? error.message : "Failed to initialize FHEVM client"
InitErrorMessage(thrown) ==
    IF thrown = "Error" THEN "message of Error" ELSE "Failed to initialize FHEVM client"

WrapAlways(thrown) ==
    [code |-> "INIT_ERROR", message |-> InitErrorMessage(thrown), cause |-> thrown]

\* error instanceof FhevmClientError ? error : new FhevmClientError("INIT_ERROR", ..., error)
ToFhevmError(thrown) ==
    IF thrown = "FhevmClientError"
    THEN ResolverClientError
    ELSE [code |-> "INIT_ERROR", message |-> InitErrorMessage(thrown), cause |-> thrown]

NoConfigError ==
    [code |-> "NO_CONFIG", message |-> "Cannot refresh: client has not been initialized",
     cause |-> "undefined"]

IsAbortErrorNever(thrown) == FALSE

\* error instanceof FhevmAbortError
IsAbortError(thrown) == thrown = AbortErrorValue

\* an initialize() call: not made yet, suspended at the await, or settled
NoCall == [status |-> "none", config |-> Null]
DoneCall == [status |-> "done", config |-> Null]

NoEvent == "none"
NothingReceived == [count |-> 0, event |-> NoEvent]

NoFrom == "none"
NoThrown == "none"

NoOp == [op |-> "new", attempt |-> Null, config |-> Null, from |-> NoFrom,
         thrown |-> NoThrown, rejected |-> NoError, published |-> FALSE]

\* ------------------------------------------------------------------------
\* _setState: publish a state and notify the listeners
\* ------------------------------------------------------------------------

\* the listener call without the try/catch around it
InvokeListenerUncaught(l, ev, acc) ==
    [acc EXCEPT !.rec[l] = [count |-> acc.rec[l].count + 1, event |-> ev.status],
                !.escaped = Throws(l)]

\* try { listener(event) } catch (error) { this._listenerErrors.push(...) }
InvokeListener(l, ev, acc) ==
    [acc EXCEPT !.rec[l] = [count |-> acc.rec[l].count + 1, event |-> ev.status],
                !.errors = IF Throws(l) THEN Append(acc.errors, l) ELSE acc.errors]

\* a loop that stops after the first listener
ForEachListenerFirstOnly(ls, ev, acc) ==
    IF ls = <<>> THEN acc ELSE InvokeListener(Head(ls), ev, acc)

\* this._listeners.forEach(...): an exception leaving the callback ends the loop
RECURSIVE ForEachListener(_, _, _)
ForEachListener(ls, ev, acc) ==
    IF ls = <<>> \/ acc.escaped
    THEN acc
    ELSE ForEachListener(Tail(ls), ev, InvokeListener(Head(ls), ev, acc))

\* the result of _setState(s) with listener set ls: the counters of the
\* previous notification are cleared, then every listener is invoked
SetState(ls, s) ==
    ForEachListener(ls, s,
        [rec |-> [l \in ListenerIds |->
                    IF l \in Range(ls)
                    THEN [received[l] EXCEPT !.count = 0]
                    ELSE NothingReceived],
         errors |-> <<>>,
         escaped |-> FALSE])

\* the assignments one _setState(s) call makes
Publish(ls, s) ==
    /\ state' = s
    /\ received' = SetState(ls, s).rec
    /\ listenerErrors' = SetState(ls, s).errors
    /\ escaped' = SetState(ls, s).escaped

\* the record of an operation: which attempt it belongs to, what its resolver
\* call threw, and the error the operation's own promise rejected with
Op(name, a, thrown, rejected) ==
    [op |-> name, attempt |-> a,
     config |-> IF a = Null THEN Null ELSE call[a].config,
     from |-> NoFrom, thrown |-> thrown, rejected |-> rejected, published |-> FALSE]

\* the same for an operation that called _setState
PublishingOp(name, a, thrown, rejected) ==
    [Op(name, a, thrown, rejected) EXCEPT !.published = TRUE]

\* ------------------------------------------------------------------------
\* Initial state: a freshly constructed client
\* ------------------------------------------------------------------------

\* ------------------------------------------------------------------------
\* State of the decryption coordinator (class DecryptionHandler)
\* ------------------------------------------------------------------------
VARIABLES
    now,        \* the wall clock read by isValid() and by the signing step
    storage,    \* _storage: the key/value store, a set of [key, value] entries
    keypair,    \* _keypair: the caller-supplied key pair, or NoKeypair
    calls,      \* per caller: the operation it runs and where that operation stands
    storeClears \* typeof this._storage.clear === "function"

hvars == <<now, storage, keypair, calls, storeClears>>

\* the builder's variables (EncryptionBuilder and the engine input it wraps)
VARIABLES
    input,        \* _input: the engine's accumulator, the entries it was given
    added,        \* the add calls that returned, in the order they were made
    encryptCalls, \* how many times _input.encrypt() was invoked
    blast         \* the builder's last call: its argument and how it ended

bvars == <<input, added, encryptCalls, blast>>

\* the variables of the useFhevmDecrypt hook
VARIABLES
    isDecrypting,  \* useState(false)
    decryptError,  \* useState(undefined): error
    handler,       \* useState(undefined): whether a DecryptionHandler is set
    dcalls         \* the calls made through the hook, in the order they started

dvars == <<isDecrypting, decryptError, handler, dcalls>>

\* the variables of the useFhevmEncrypt hook
VARIABLES
    isEncrypting,        \* useState(false)
    encryptError,        \* useState(undefined): error
    abortControllerRef,  \* the call whose AbortController the ref holds, or Null
    canEncrypt,          \* Boolean(instance && signer && contractAddress)
    ecalls,              \* the calls made through the hook, in the order they started
    unmounted            \* the unmount cleanup has run

evars == <<isEncrypting, encryptError, abortControllerRef, canEncrypt, ecalls, unmounted>>

\* the variables of the useFhevmClient hook; the client it holds is the
\* client of the first part
VARIABLES
    options,          \* the options of the last render: enabled, provider, chainId
    mounted,          \* the effect has run at least once
    hookState,        \* useState({status: "idle"}): the state the hook exposes
    hookChain,        \* the chain of the attempt that published hookState
    clientRef,        \* clientRef.current holds a client
    prevChainIdRef,   \* prevChainIdRef.current, Null for undefined
    prevEnabledRef,   \* prevEnabledRef.current: "undefined", "true" or "false"
    isCleaningUpRef,  \* isCleaningUpRef.current
    hasCleanup        \* the last run of the effect returned its cleanup function

cvars == <<options, mounted, hookState, hookChain, clientRef, prevChainIdRef,
           prevEnabledRef, isCleaningUpRef, hasCleanup>>

\* the variables of the three hooks
kvars == <<dvars, evars, cvars>>

allvars == <<vars, hvars, bvars, kvars>>

\* what an action of one part leaves alone: the other parts
exceptClient == <<hvars, bvars, kvars>>
exceptHandler == <<vars, bvars, kvars>>
exceptBuilder == <<vars, hvars, kvars>>
exceptDecryptHook == <<vars, hvars, bvars, evars, cvars>>
exceptEncryptHook == <<vars, hvars, bvars, dvars, cvars>>
exceptClientHook == <<hvars, bvars, dvars, evars>>

\* the callers of one coordinator; DecryptionSpec has the first one alone
Callers == {"caller", "other"}
Sequential == {"caller"}

\* options.keypair left undefined
NoKeypair == [publicKey |-> "", privateKey |-> ""]

SuppliedKeypair == [publicKey |-> "0xSuppliedPublic", privateKey |-> "0xSuppliedPrivate"]

Keypairs == {NoKeypair, SuppliedKeypair}

\* no Authorization: the null that loadOrSign and the storage lookup may return
NoSignature ==
    [publicKey |-> "", contractAddresses |-> <<>>, startTimestamp |-> 0]

\* a thrown value, and the absence of one
NoCause == [kind |-> "none", text |-> ""]

NoFailure == [message |-> <<>>, cause |-> NoCause]

\* results[handle] of a handle that has no entry; the value of a void promise
Undefined == "undefined"

\* an operation that has not settled
NoResult ==
    [kind |-> "none", map |-> <<>>, value |-> Undefined, list |-> <<>>,
     flag |-> FALSE, error |-> NoFailure]

\* a caller that runs no operation.  log and failed are the collaborator calls
\* the operation has made and those that failed; key and cachedBefore are what
\* clearSignatureCache computed and whether the store then held the entry
IdleCall ==
    [op |-> "none", pc |-> "idle", requests |-> <<>>, addresses |-> <<>>,
     array |-> <<>>, phase |-> 0, signature |-> NoSignature, start |-> 0,
     log |-> {}, failed |-> {}, results |-> <<>>, key |-> <<>>,
     cachedBefore |-> FALSE, thrown |-> NoCause, result |-> NoResult]

\* new DecryptionHandler({instance, signer, storage, keypair}): an empty
\* GenericStringInMemoryStorage unless a store is passed
HandlerConstructed(kp, clears) ==
    /\ now = 0
    /\ storage = {}
    /\ keypair = kp
    /\ calls = [c \in Callers |-> IdleCall]
    /\ storeClears = clears

\* a value handed to an add method: a boolean, a number (n, or n + 1/2 when
\* half) or a string (its characters)
NoValue == [type |-> "none", b |-> FALSE, n |-> 0, half |-> FALSE, s |-> <<>>]
BooleanValue(b) == [NoValue EXCEPT !.type = "boolean", !.b = b]
NumberValue(n, half) == [NoValue EXCEPT !.type = "number", !.n = n, !.half = half]
StringValue(s) == [NoValue EXCEPT !.type = "string", !.s = s]

NoArg == [method |-> "none", value |-> NoValue]
NoEncrypted == [handles |-> <<>>, inputProof |-> <<>>]
NoBuilderCall ==
    [op |-> "none", arg |-> NoArg, outcome |-> "none", error |-> NoFailure,
     thrown |-> NoCause, result |-> NoEncrypted, hex |-> NoEncrypted]

\* new EncryptionBuilder(instance, contractAddress, userAddress)
BuilderConstructed ==
    /\ input = <<>>
    /\ added = <<>>
    /\ encryptCalls = 0
    /\ blast = NoBuilderCall

\* calls made through one hook
MaxHookCalls == 2

HookCalls == 1..MaxHookCalls

\* a call through a hook: the function called, where it stands, and the
\* error it rejected with
NoHookCall == [op |-> "none", pc |-> "none", error |-> NoCause]

\* the first render of useFhevmDecrypt
DecryptHookMounted ==
    /\ isDecrypting = FALSE
    /\ decryptError = NoCause
    /\ handler = FALSE
    /\ dcalls = [k \in HookCalls |-> NoHookCall]

\* a performEncryption call: the hook function called, the await it is
\* suspended at, its signal, what the awaited step threw and the error the
\* call rejected with
NoEncryptCall ==
    [op |-> "none", pc |-> "none", aborted |-> FALSE, thrown |-> NoCause,
     error |-> NoCause]

\* the first render of useFhevmEncrypt
EncryptHookMounted ==
    /\ isEncrypting = FALSE
    /\ encryptError = NoCause
    /\ abortControllerRef = Null
    /\ canEncrypt = FALSE
    /\ ecalls = [k \in HookCalls |-> NoEncryptCall]
    /\ unmounted = FALSE

\* the options before the first render
NoOptions == [enabled |-> FALSE, provider |-> FALSE, chainId |-> Null]

\* useFhevmClient before its effect has run
ClientHookRendered ==
    /\ options = NoOptions
    /\ mounted = FALSE
    /\ hookState = IdleState
    /\ hookChain = Null
    /\ clientRef = FALSE
    /\ prevChainIdRef = Null
    /\ prevEnabledRef = "undefined"
    /\ isCleaningUpRef = FALSE
    /\ hasCleanup = FALSE

HooksMounted == DecryptHookMounted /\ EncryptHookMounted /\ ClientHookRendered

\* new FhevmClient()
ClientConstructed ==
    /\ state = IdleState
    /\ listeners = <<>>
    /\ abortController = Null
    /\ config = Null
    /\ initializationId = 0
    /\ listenerErrors = <<>>
    /\ aborted = [a \in Attempts |-> FALSE]
    /\ call = [a \in Attempts |-> NoCall]
    /\ resolverCalls = 0
    /\ received = [l \in ListenerIds |-> NothingReceived]
    /\ escaped = FALSE
    /\ lastInitConfig = Null
    /\ destroyedSince = FALSE
    /\ last = NoOp

Init ==
    /\ ClientConstructed
    /\ HandlerConstructed(NoKeypair, FALSE)
    /\ BuilderConstructed
    /\ HooksMounted

\* ------------------------------------------------------------------------
\* Operations
\* ------------------------------------------------------------------------

\* subscribe(listener): Set.add keeps one copy and the insertion position
Subscribe(l) ==
    /\ l \notin Range(listeners)
    /\ listeners' = Append(listeners, l)
    /\ received' = [received EXCEPT ![l] = NothingReceived]
    /\ last' = Op("subscribe", Null, NoThrown, NoError)
    /\ UNCHANGED <<state, abortController, config, initializationId, listenerErrors,
                   aborted, call, resolverCalls, escaped, lastInitConfig, destroyedSince>>

\* the Unsubscribe closure returned by subscribe
Unsubscribe(l) ==
    /\ l \in Range(listeners)
    /\ listeners' = SelectSeq(listeners, LAMBDA x : x # l)
    /\ received' = [received EXCEPT ![l] = NothingReceived]
    /\ last' = Op("unsubscribe", Null, NoThrown, NoError)
    /\ UNCHANGED <<state, abortController, config, initializationId, listenerErrors,
                   aborted, call, resolverCalls, escaped, lastInitConfig,
                   destroyedSince>>

AbortNothing(ctl) == aborted

\* if (this._abortController) this._abortController.abort()
AbortController(ctl) ==
    IF ctl # Null THEN [aborted EXCEPT ![ctl] = TRUE] ELSE aborted

\* the body of initialize(config) up to its first suspension, at the await
StartAttempt(c) ==
    LET currentInitId == initializationId + 1 IN
    /\ initializationId < MaxAttempts
    /\ initializationId' = currentInitId
    /\ aborted' = AbortController(abortController)
    /\ config' = c
    /\ abortController' = currentInitId
    /\ Publish(listeners, InitializingState(NoProgress))
    /\ call' = [call EXCEPT ![currentInitId] =
                    [status |-> "pending", config |-> c]]
    /\ resolverCalls' = resolverCalls + 1
    /\ UNCHANGED listeners

Initialize(c) ==
    /\ StartAttempt(c)
    /\ lastInitConfig' = c
    /\ destroyedSince' = FALSE
    /\ last' = [PublishingOp("initialize", Null, NoThrown, NoError)
                    EXCEPT !.attempt = initializationId + 1, !.config = c,
                           !.from = state.status]

HasConfigAlways == TRUE

\* !this._config is false
HasConfig == config # Null

\* refresh(): throws NO_CONFIG, or runs initialize(this._config)
Refresh ==
    /\ IF HasConfig
       THEN /\ StartAttempt(config)
            /\ last' = [PublishingOp("refresh", Null, NoThrown, NoError)
                            EXCEPT !.attempt = initializationId + 1, !.config = config,
                                   !.from = state.status]
       ELSE /\ last' = Op("refresh", Null, NoThrown, NoConfigError)
            /\ UNCHANGED <<state, listeners, abortController, config, initializationId,
                           listenerErrors, aborted, call, resolverCalls, received,
                           escaped>>
    /\ UNCHANGED <<lastInitConfig, destroyedSince>>

\* this._listeners.clear()
ClearedListeners == <<>>

\* destroy()
Destroy ==
    /\ aborted' = AbortController(abortController)
    /\ abortController' = Null
    /\ listeners' = ClearedListeners
    /\ Publish(ClearedListeners, IdleState)
    /\ config' = Null
    /\ destroyedSince' = TRUE
    /\ last' = [PublishingOp("destroy", Null, NoThrown, NoError) EXCEPT !.from = state.status]
    /\ UNCHANGED <<initializationId, call, resolverCalls, lastInitConfig>>

\* initialize() call a is suspended at await createFhevmInstance(...)
ResolverPending(a) == call[a].status = "pending"

\* the resolver reports progress at any point of a pending call; the client
\* passes it no means to withdraw onStatusChange
ResolverMayReport(a, p) == ResolverPending(a)

\* a pending resolver call may resolve with an instance, cancelled or not
ResolverMayResolve(a) == ResolverPending(a)

\* a pending resolver call may throw; the cancellation error is thrown only
\* for a token that has been aborted
ResolverMayThrow(a, thrown) ==
    ResolverPending(a) /\ (thrown = AbortErrorValue => aborted[a])

\* onStatusChange of attempt a, called by its resolver while that call is pending
ProgressCallback(a, p) ==
    /\ ResolverMayReport(a, p)
    /\ Publish(listeners, InitializingState(p))
    /\ last' = PublishingOp("progress", a, NoThrown, NoError)
    /\ UNCHANGED <<listeners, abortController, config, initializationId, aborted, call,
                   resolverCalls, lastInitConfig, destroyedSince>>

IsStaleNever(a) == FALSE

\* signal.aborted || currentInitId !== this._initializationId
IsStale(a) == aborted[a] \/ a # initializationId

\* the resolver call of attempt a resolves with an instance: the try block resumes
ResolverResolves(a) ==
    /\ ResolverMayResolve(a)
    /\ IF IsStale(a)
       THEN /\ last' = Op("resolve", a, NoThrown, NoError)
            /\ UNCHANGED <<state, received, listenerErrors, escaped>>
       ELSE /\ Publish(listeners, ReadyState(a))
            /\ last' = PublishingOp("resolve", a, NoThrown, NoError)
    /\ call' = [call EXCEPT ![a] = DoneCall]
    /\ UNCHANGED <<listeners, abortController, config, initializationId, aborted,
                   resolverCalls, lastInitConfig, destroyedSince>>

\* the resolver call of attempt a throws: the catch block runs
ResolverThrows(a, thrown) ==
    /\ ResolverMayThrow(a, thrown)
    /\ IF IsAbortError(thrown)
       THEN /\ Publish(listeners, IdleState)
            /\ call' = [call EXCEPT ![a] = DoneCall]
            /\ last' = PublishingOp("throw", a, thrown, NoError)
       ELSE /\ Publish(listeners, ErrorState(ToFhevmError(thrown)))
            /\ call' = [call EXCEPT ![a] = DoneCall]
            /\ last' = PublishingOp("throw", a, thrown, ToFhevmError(thrown))
    /\ UNCHANGED <<listeners, abortController, config, initializationId, aborted,
                   resolverCalls, lastInitConfig, destroyedSince>>

\* the operations of the client; they do not touch a decryption coordinator
Next ==
    \/ (\E l \in ListenerIds : Subscribe(l)) /\ UNCHANGED exceptClient
    \/ (\E l \in ListenerIds : Unsubscribe(l)) /\ UNCHANGED exceptClient
    \/ (\E c \in Configs : Initialize(c)) /\ UNCHANGED exceptClient
    \/ Refresh /\ UNCHANGED exceptClient
    \/ Destroy /\ UNCHANGED exceptClient
    \/ (\E a \in Attempts, p \in ProgressStrings : ProgressCallback(a, p)) /\ UNCHANGED exceptClient
    \/ (\E a \in Attempts : ResolverResolves(a)) /\ UNCHANGED exceptClient
    \/ (\E a \in Attempts, thrown \in ThrownValues : ResolverThrows(a, thrown))
            /\ UNCHANGED exceptClient

Spec == Init /\ [][Next]_allvars

\* ------------------------------------------------------------------------
\* Properties of the session state machine
\* ------------------------------------------------------------------------

Pending == {a \in Attempts : call[a].status = "pending"}

\* the attempt a step's operation belongs to was superseded by a later initialize()
Superseded(a) == a # Null /\ a < initializationId

\* C1: once initialize(c2) has superseded an attempt whose resolver call was
\* still pending, the machine is never Ready with the instance of the
\* superseded attempt, in whatever order the resolver calls complete.
C1_NoStaleReady ==
    \A a \in Attempts : Superseded(a) => ~(IsReady /\ Instance = a)

\* a superseded attempt, made with another configuration than its successor,
\* has just resolved with an instance and was discarded
C1_Witness ==
    /\ last.op = "resolve"
    /\ Superseded(last.attempt)
    /\ config # Null
    /\ last.config # config
    /\ ~last.published

\* C2: after destroy(), the completion of a resolver call that was pending at
\* the time of destroy() leaves the state Idle and the listener set empty.
C2_DestroyedStaysIdle ==
    [][(/\ last'.op \in {"resolve", "throw"}
        /\ abortController = Null
        /\ state.status = "idle"
        /\ listeners = <<>>)
       => (state'.status = "idle" /\ listeners' = <<>>)]_vars

\* C3: the non-cancellation failure of a superseded attempt is discarded: it
\* changes nothing of the state the current attempt has set.
C3_SupersededFailureDiscarded ==
    [][(/\ last'.op = "throw"
        /\ Superseded(last'.attempt)
        /\ last'.thrown # AbortErrorValue)
       => (state' = state)]_vars

\* C4: in the sequence of states delivered to a subscriber, every Ready and
\* every Error notification directly follows an Initializing notification.
C4_ReadyErrorFollowInitializing ==
    [][\A l \in Range(listeners') :
          (/\ last'.published
           /\ received'[l].count = 1
           /\ received'[l].event \in {"ready", "error"})
          => received[l].event \in {"initializing", NoEvent}]_vars

\* C5: once every resolver call has completed, and with no further call of
\* initialize, refresh or destroy, the machine is not left in Initializing.
C5_NotLeftInitializing ==
    Pending = {} => ~IsInitializing

\* C6: a resolver call that ends with the cancellation error never puts the
\* machine in Error (the state is Idle), and its initialize() call resolves.
C6_CancellationIsSilent ==
    (last.op = "throw" /\ last.thrown = AbortErrorValue)
    => (state.status = "idle" /\ last.rejected = NoError)

C6_Witness ==
    /\ last.op = "throw"
    /\ last.thrown = AbortErrorValue
    /\ Superseded(last.attempt)

\* C7: when the resolver call of the current attempt fails with another error
\* than the cancellation error, the state is Error with a structured error
\* (the FhevmClientError thrown, or INIT_ERROR with the thrown value as its
\* cause), initialize() rejects with that same error, and a resolver call is
\* started only by a call of initialize() or refresh().
C7_CurrentFailureIsError ==
    [][/\ (/\ last'.op = "throw"
           /\ last'.thrown # AbortErrorValue
           /\ last'.attempt = initializationId
           /\ ~aborted[initializationId])
          => (/\ state'.status = "error"
              /\ state'.error = last'.rejected
              /\ IF last'.thrown = "FhevmClientError"
                 THEN state'.error = ResolverClientError
                 ELSE /\ state'.error.code = "INIT_ERROR"
                      /\ state'.error.cause = last'.thrown
              /\ resolverCalls' = resolverCalls
              /\ call'[initializationId'].status = "done")
       /\ (resolverCalls' # resolverCalls => last'.op \in {"initialize", "refresh"})]_vars

C7_Witness ==
    /\ last.op = "throw"
    /\ last.thrown = "FhevmClientError"
    /\ last.attempt = initializationId
    /\ ~aborted[initializationId]
    /\ state = ErrorState(ResolverClientError)

\* the effect of a refresh() that fails with NO_CONFIG
RefreshFails ==
    /\ last'.rejected = NoConfigError
    /\ state' = state
    /\ resolverCalls' = resolverCalls
    /\ call' = call

\* the effect of a refresh() that starts a new attempt with configuration c
RefreshStarts(c) ==
    /\ last'.rejected = NoError
    /\ resolverCalls' = resolverCalls + 1
    /\ initializationId' = initializationId + 1
    /\ call'[initializationId'] = [status |-> "pending", config |-> c]
    /\ state' = InitializingState(NoProgress)

C9_DestroyResets ==
    last.op = "destroy"
    => (/\ state.status = "idle"
        /\ Instance = Null
        /\ ErrorOf = NoError
        /\ GetListenerCount = 0
        /\ \A a \in Pending : aborted[a])

C9_Witness ==
    /\ last.op = "destroy"
    /\ last.from = "initializing"
    /\ initializationId \in Pending

\* the status an operation that called _setState has published
PublishedStatus ==
    CASE last.op \in {"initialize", "refresh", "progress"} -> "initializing"
      [] last.op = "resolve" -> "ready"
      [] last.op = "throw" -> IF IsAbortError(last.thrown) THEN "idle" ELSE "error"
      [] OTHER -> "idle"

\* C10: when a listener throws during a notification, the transition takes
\* effect, every registered listener is invoked exactly once with the new
\* state, and no exception leaves _setState.
C10_ListenerFaultIsolated ==
    (last.published /\ \E l \in Range(listeners) : Throws(l))
    => (/\ state.status = PublishedStatus
        /\ \A l \in Range(listeners) :
              received[l] = [count |-> 1, event |-> state.status]
        /\ listenerErrors = SelectSeq(listeners, Throws)
        /\ ~escaped)

\* the throwing listener is notified before a listener that returns
C10_Witness ==
    /\ last.published
    /\ last.op = "resolve"
    /\ Len(listeners) = 2
    /\ Throws(listeners[1])
    /\ ~Throws(listeners[2])

\* the listeners of the pre-state have each been invoked once with the new state
AllNotified ==
    \A l \in Range(listeners) : received'[l] = [count |-> 1, event |-> state'.status]

\* C11, as stated: every call of _setState, progress updates included, invokes
\* every listener that was registered when the operation was called.
C11_EveryTransitionNotifies ==
    [][last'.published => AllNotified]_vars

\* C11, amended: every transition made by initialize(), refresh(), a progress
\* callback or a resolver completion invokes every listener registered when
\* it was made; destroy() clears the listeners first, and its transition to
\* Idle invokes no listener.
C11_TransitionsNotifyExceptDestroy ==
    [][last'.published
       => IF last'.op = "destroy"
          THEN \A l \in ListenerIds : received'[l].count = 0
          ELSE AllNotified]_vars

\* a progress update is delivered to two listeners
C11_Witness ==
    /\ last.op = "progress"
    /\ Len(listeners) = MaxListeners
    /\ \A l \in Range(listeners) : received[l] = [count |-> 1, event |-> "initializing"]

Tags == {"idle", "initializing", "ready", "error"}

\* C12: exactly one status tag is active and the derived views agree with it.
C12_ViewsAgreeWithTag ==
    /\ state.status \in Tags
    /\ Cardinality({t \in Tags : state.status = t}) = 1
    /\ IsReady <=> state.status = "ready"
    /\ Instance # Null <=> state.status = "ready"
    /\ ErrorOf # NoError <=> state.status = "error"
    /\ IsInitializing <=> state.status = "initializing"
    /\ ~(IsReady /\ IsInitializing)
    /\ state.status = "ready" => state = ReadyState(Instance)
    /\ state.status = "error" => state = ErrorState(ErrorOf)

C12_Witness ==
    /\ state.status = "error"
    /\ ErrorOf.code = "INIT_ERROR"
    /\ Instance = Null
    /\ ~IsReady
    /\ ~IsInitializing

\* C29: the cancellation error of an attempt that a later initialize() has
\* superseded leaves the state as the successor set it, while the successor
\* is in flight and after it has completed.
C29_SupersededCancellationKeepsState ==
    [][(/\ last'.op = "throw"
        /\ last'.thrown = AbortErrorValue
        /\ Superseded(last'.attempt)
        /\ abortController # Null)
       => state'.status = state.status]_vars

\* the attempts whose AbortController has been created
Started == {a \in Attempts : a <= initializationId}

\* C30: at any time at most one started attempt has a token that is not
\* aborted, and it is the attempt with the current (largest) attempt id.
C30_OnlyCurrentTokenLive ==
    /\ \A a \in Started : ~aborted[a] => a = initializationId
    /\ Cardinality({a \in Started : ~aborted[a]}) <= 1
    /\ abortController # Null => abortController = initializationId

\* the second initialize() has aborted the token of the first, whose
\* resolver call is still pending, and holds the only live token
C30_Witness ==
    /\ initializationId = MaxAttempts
    /\ \A a \in Started : aborted[a] <=> a # initializationId
    /\ \A a \in Started : ResolverPending(a)
    /\ abortController = initializationId

\* C37: once the machine is Ready it stays Ready with the same instance until
\* the caller invokes initialize(), refresh() or destroy(): nothing that
\* belongs to an earlier attempt moves it out of Ready
C37_ReadyUntilCallerActs ==
    [][(IsReady /\ last'.op \notin {"initialize", "refresh", "destroy"})
       => state' = state]_vars

\* C38: a progress callback of an attempt that was superseded or destroyed
\* changes no state and notifies no listener
C38_StaleProgressIgnored ==
    [][(/\ last'.op = "progress"
        /\ (Superseded(last'.attempt) \/ aborted[last'.attempt]))
       => (state' = state /\ received' = received)]_vars

\* C39: initialize() or refresh() called while Ready publishes Initializing
\* before it suspends, and the instance is undefined for as long as the
\* resolver call of the newest attempt is pending
C39_NoInstanceWhileInFlight ==
    /\ []((initializationId > 0 /\ ResolverPending(initializationId))
             => (Instance = Null /\ ~IsReady))
    /\ [][(IsReady /\ last'.op \in {"initialize", "refresh"})
          => (/\ state' = InitializingState(NoProgress)
              /\ ResolverPending(initializationId)')]_vars

\* refresh() was called on a Ready machine and its attempt is in flight
C39_Witness ==
    /\ last.op = "refresh"
    /\ last.from = "ready"
    /\ ResolverPending(initializationId)
    /\ Instance = Null

\* C40: a refresh() called after destroy() and before any new initialize()
\* fails with NO_CONFIG, starts no resolver call and leaves the state Idle
C40_RefreshAfterDestroy ==
    [][(last'.op = "refresh" /\ destroyedSince)
       => (/\ last'.rejected = NoConfigError
           /\ resolverCalls' = resolverCalls
           /\ call' = call
           /\ state' = IdleState)]_vars

\* ========================================================================
\* The decryption coordinator (class DecryptionHandler) and the
\* Authorization cache it drives (FhevmDecryptionSignature.loadOrSign)
\* ========================================================================

\* longest request list passed to one call
MaxRequests == 2

\* last tick of the wall clock
MaxTime == 2

\* validity window of an Authorization, in clock ticks
DurationDays == 1

ContractAddresses == {"0xA", "0xB"}

Handles == {"0xh1", "0xh2"}

\* signer.getAddress()
UserAddress == "0xUser"

\* publicKey of the key pair generated when none was supplied
GeneratedPublicKey == "0xGeneratedPublic"

\* DecryptionRequest {handle, contractAddress}
RequestPool ==
    {[handle |-> "0xh1", contractAddress |-> "0xA"],
     [handle |-> "0xh2", contractAddress |-> "0xB"]}

SeqsUpTo(S, n) == UNION {[1..k -> S] : k \in 0..n}

RequestLists == SeqsUpTo(RequestPool, MaxRequests)

\* contract-address arrays passed to preloadSignature, hasValidSignature and
\* clearSignatureCache: every enumeration of a non-empty contract set
AddressLists ==
    {l \in SeqsUpTo(ContractAddresses, Cardinality(ContractAddresses)) :
        Len(l) > 0 /\ Cardinality(Range(l)) = Len(l)}

\* DecryptedValue: string | bigint | boolean, two of them falsy
DecryptedValues == {"false", "0n", "42n"}

\* requests.map(r => r.handle), as a set
HandlesOf(requests) == {requests[i].handle : i \in 1..Len(requests)}

\* the maps userDecrypt may return for a batch: a value for each requested
\* handle, or for some of them only
ResultMaps(requests) ==
    UNION {[D -> DecryptedValues] : D \in SUBSET HandlesOf(requests)}

\* what userDecrypt may throw: an Error, or a value that is not an Error
EngineThrown ==
    {[kind |-> "Error", text |-> "relayer unavailable"],
     [kind |-> "string", text |-> "relayer unavailable"]}

\* what signer.getAddress() throws when it fails
SignerFailure == [kind |-> "Error", text |-> "getAddress failed"]

\* what a failing operation of the store throws
StorageFailure == [kind |-> "Error", text |-> "storage failed"]

\* position of an address in the order Array.prototype.sort() gives strings
Rank(a) == IF a = "0xA" THEN 1 ELSE 2

RECURSIVE Insert(_, _)
Insert(a, l) ==
    IF l = <<>> THEN <<a>>
    ELSE IF Rank(a) <= Rank(Head(l)) THEN <<a>> \o l
    ELSE <<Head(l)>> \o Insert(a, Tail(l))

\* the array left as the caller ordered it
SortNone(l) == l

\* Array.prototype.sort()
RECURSIVE Sort(_)
Sort(l) == IF l = <<>> THEN <<>> ELSE Insert(Head(l), Sort(Tail(l)))

\* [...contractAddresses].sort(): the sorted copy, and the caller's array afterwards
SortedCopy(l) == [sorted |-> Sort(l), array |-> l]

\* Array.from(new Set(list)): first occurrences, in insertion order
RECURSIVE Unique(_)
Unique(l) ==
    IF l = <<>> THEN <<>>
    ELSE <<Head(l)>> \o Unique(SelectSeq(Tail(l), LAMBDA x : x # Head(l)))

\* requests.map(r => r.contractAddress)
ContractsOf(requests) == [i \in 1..Len(requests) |-> requests[i].contractAddress]

\* every contract of the request list, repetitions kept
UniqueAddressesNone(requests) == ContractsOf(requests)

\* uniqueAddresses of decryptMany
UniqueAddresses(requests) == Unique(ContractsOf(requests))

\* the public key of a generated key pair in place of the empty string
PublicKeyOrGenerated(kp) == IF kp = NoKeypair THEN GeneratedPublicKey ELSE kp.publicKey

\* this._keypair?.publicKey || ""
PublicKeyOrEmpty(kp) == IF kp = NoKeypair THEN "" ELSE kp.publicKey

\* the cache key clearSignatureCache builds
CacheKey(userAddress, contractAddresses, publicKey) ==
    <<"fhevm_signature", userAddress, SortedCopy(contractAddresses).sorted, publicKey>>

\* a key that keeps the contract addresses in the order of the request list
StorageKeyUnsorted(userAddress, contractAddresses, kp) ==
    <<"fhevm_signature", userAddress, contractAddresses, kp.publicKey>>

\* the key loadOrSign and loadFromGenericStringStorage derive from
\* (userAddress, sort(contractAddresses), publicKey)
StorageKey(userAddress, contractAddresses, kp) ==
    <<"fhevm_signature", userAddress, Sort(contractAddresses), kp.publicKey>>

\* isValid(): now < startTimestamp + durationDays
IsValid(signature, t) ==
    signature # NoSignature /\ t < signature.startTimestamp + DurationDays

\* storage.getItem(key)
GetItem(st, key) ==
    IF \E e \in st : e.key = key
    THEN (CHOOSE e \in st : e.key = key).value
    ELSE NoSignature

\* storage.setItem(key, value)
SetItem(st, key, value) ==
    {e \in st : e.key # key} \cup {[key |-> key, value |-> value]}

\* storage.removeItem(key)
RemoveItem(st, key) == {e \in st : e.key # key}

\* ------------------------------------------------------------------------
\* Outcomes of the coordinator's operations

ResolvedMap(m) == [NoResult EXCEPT !.kind = "resolved", !.map = m]

ResolvedValue(v) == [NoResult EXCEPT !.kind = "resolved", !.value = v]

ResolvedList(l) == [NoResult EXCEPT !.kind = "resolved", !.list = l]

ResolvedFlag(b) == [NoResult EXCEPT !.kind = "resolved", !.flag = b]

ResolvedVoid == [NoResult EXCEPT !.kind = "resolved"]

Rejected(e) == [NoResult EXCEPT !.kind = "rejected", !.error = e]

\* new Error(message), no cause attached
PlainError(message) == [message |-> message, cause |-> NoCause]

NoSignatureError == PlainError(<<"Failed to create decryption signature">>)

ExpiredError ==
    PlainError(<<"Decryption signature has expired and could not be refreshed">>)

PreloadError == PlainError(<<"Failed to preload decryption signature">>)

MissingHandleError(h) == PlainError(<<"Failed to decrypt handle: ", h>>)

MissingResultError(h) == PlainError(<<"Missing decryption result for handle: ", h>>)

\* a rejection of the signer passed on unchanged by an await
Propagated(thrown) == PlainError(<<thrown.text>>)

\* error instanceof Error
IsError(thrown) == thrown.kind = "Error"

\* a wrapper that attaches no cause
DecryptionErrorNoCause(thrown) ==
    PlainError(<<"Decryption failed: ",
                 IF IsError(thrown) THEN thrown.text ELSE "Unknown error">>)

\* the catch block of _performDecryption
DecryptionError(thrown) ==
    [message |-> <<"Decryption failed: ",
                   IF IsError(thrown) THEN thrown.text ELSE "Unknown error">>,
     cause |-> IF IsError(thrown) THEN thrown ELSE NoCause]

\* a presence test that takes a falsy value for a missing one
HasOwnPropertyTruthy(m, h) == h \in DOMAIN m /\ m[h] \notin {"false", "0n"}

\* Object.prototype.hasOwnProperty.call(results, handle)
HasOwnProperty(m, h) == h \in DOMAIN m

\* results[handle]
Lookup(m, h) == IF h \in DOMAIN m THEN m[h] ELSE Undefined

\* a test that takes a falsy value for undefined
IsUndefinedFalsy(v) == v \in {Undefined, "false", "0n"}

\* value === undefined
IsUndefined(v) == v = Undefined

\* decrypt(request) after decryptMany([request]) has settled
DecryptOutcome(request, outcome) ==
    IF outcome.kind = "rejected" THEN outcome
    ELSE IF ~HasOwnProperty(outcome.map, request.handle)
         THEN Rejected(MissingHandleError(request.handle))
         ELSE ResolvedValue(outcome.map[request.handle])

\* decryptManyOrdered(requests) after decryptMany(requests) has settled:
\* requests.map throws at the first request whose value is undefined
OrderedOutcome(requests, outcome) ==
    IF outcome.kind = "rejected" THEN outcome
    ELSE LET missing == {i \in 1..Len(requests) :
                            IsUndefined(Lookup(outcome.map, requests[i].handle))}
         IN  IF missing # {}
             THEN LET first == CHOOSE i \in missing : \A j \in missing : i <= j
                  IN  Rejected(MissingResultError(requests[first].handle))
             ELSE ResolvedList([i \in 1..Len(requests) |->
                                    Lookup(outcome.map, requests[i].handle)])

\* what the operation of rec returns once its decryptMany has settled
Project(rec, outcome) ==
    IF rec.op = "decrypt" THEN DecryptOutcome(rec.requests[1], outcome)
    ELSE IF rec.op = "decryptManyOrdered" THEN OrderedOutcome(rec.requests, outcome)
    ELSE outcome

\* the operation of rec settles: its locals are gone, its result is kept
Finish(rec, outcome) ==
    [rec EXCEPT !.pc = "done", !.phase = 0, !.start = 0, !.signature = NoSignature,
                !.result = Project(rec, outcome)]

\* ------------------------------------------------------------------------
\* Operations of the coordinator

\* the caller awaits no operation
CanCall(c) == calls[c].pc = "idle"

\* this._performDecryption(requests, signature) up to its await of userDecrypt
InvokeEngine(rec, signature) ==
    [rec EXCEPT !.pc = "userDecrypt", !.signature = signature,
                !.log = @ \cup {"userDecrypt"}]

\* a continuation that passes on whatever loadOrSign returned
AfterLoadOrSignUnchecked(rec, signature) ==
    IF rec.op = "preloadSignature"
    THEN IF signature = NoSignature
         THEN Finish(rec, Rejected(PreloadError))
         ELSE Finish(rec, ResolvedVoid)
    ELSE IF signature = NoSignature
         THEN Finish(rec, Rejected(NoSignatureError))
         ELSE InvokeEngine(rec, signature)

\* what decryptMany and preloadSignature do when await loadOrSign(...) returns
AfterLoadOrSign(rec, signature) ==
    IF rec.op = "preloadSignature"
    THEN IF signature = NoSignature
         THEN Finish(rec, Rejected(PreloadError))
         ELSE Finish(rec, ResolvedVoid)
    ELSE IF rec.phase = 1
         THEN IF signature = NoSignature
              THEN Finish(rec, Rejected(NoSignatureError))
              ELSE IF ~IsValid(signature, now)
                   THEN [rec EXCEPT !.pc = "clearSignatureCache"]
                   ELSE InvokeEngine(rec, signature)
         ELSE IF signature = NoSignature \/ ~IsValid(signature, now)
              THEN Finish(rec, Rejected(ExpiredError))
              ELSE InvokeEngine(rec, signature)

\* a start that looks for an Authorization whatever the request list
BeginDecryptManyAlways(op, requests) ==
    [IdleCall EXCEPT !.op = op, !.requests = requests, !.pc = "loadOrSign",
                     !.phase = 1, !.addresses = UniqueAddresses(requests)]

\* decryptMany(requests) up to its first await
BeginDecryptMany(op, requests) ==
    LET rec == [IdleCall EXCEPT !.op = op, !.requests = requests] IN
    IF Len(requests) = 0
    THEN Finish(rec, ResolvedMap(<<>>))
    ELSE [rec EXCEPT !.pc = "loadOrSign", !.phase = 1,
                     !.addresses = UniqueAddresses(requests)]

\* decrypt(request)
Decrypt(c, request) ==
    /\ CanCall(c)
    /\ calls' = [calls EXCEPT ![c] = BeginDecryptMany("decrypt", <<request>>)]
    /\ UNCHANGED <<now, storage, keypair, storeClears>>
    /\ UNCHANGED exceptHandler

\* decryptMany(requests)
DecryptMany(c, requests) ==
    /\ CanCall(c)
    /\ calls' = [calls EXCEPT ![c] = BeginDecryptMany("decryptMany", requests)]
    /\ UNCHANGED <<now, storage, keypair, storeClears>>
    /\ UNCHANGED exceptHandler

\* decryptManyOrdered(requests)
DecryptManyOrdered(c, requests) ==
    /\ CanCall(c)
    /\ calls' = [calls EXCEPT ![c] = BeginDecryptMany("decryptManyOrdered", requests)]
    /\ UNCHANGED <<now, storage, keypair, storeClears>>
    /\ UNCHANGED exceptHandler

\* preloadSignature(contractAddresses) up to its await of loadOrSign
PreloadSignature(c, addresses) ==
    /\ CanCall(c)
    /\ calls' = [calls EXCEPT ![c] =
                    [IdleCall EXCEPT !.op = "preloadSignature", !.pc = "loadOrSign",
                                     !.phase = 1, !.addresses = addresses,
                                     !.array = addresses]]
    /\ UNCHANGED <<now, storage, keypair, storeClears>>
    /\ UNCHANGED exceptHandler

\* loadFromGenericStringStorage(storage, instance, contractAddresses, userAddress, publicKey)
LoadFromGenericStringStorage(st, addresses, kp) ==
    GetItem(st, StorageKey(UserAddress, addresses, kp))

\* the Authorization loadOrSign creates: the supplied key pair or a generated
\* one, the sorted contract set, startTimestamp = now at the time of the request
NewSignature(rec, kp) ==
    [publicKey |-> IF kp = NoKeypair THEN GeneratedPublicKey ELSE kp.publicKey,
     contractAddresses |-> Sort(rec.addresses),
     startTimestamp |-> rec.start]

\* loadOrSign, steps 1 and 2: the address of the signer, the cache lookup, and
\* on a miss the signature request
LoadOrSignLookup(c, addressOk) ==
    LET rec == calls[c] IN
    /\ rec.pc = "loadOrSign"
    /\ IF ~addressOk
       THEN calls' = [calls EXCEPT ![c] =
                Finish([rec EXCEPT !.log = @ \cup {"getAddress"},
                                   !.failed = @ \cup {"getAddress"}],
                       Rejected(Propagated(SignerFailure)))]
       ELSE LET cached == LoadFromGenericStringStorage(storage, rec.addresses, keypair)
                looked == [rec EXCEPT !.log = @ \cup {"getAddress", "getItem"}]
            IN  IF IsValid(cached, now)
                THEN calls' = [calls EXCEPT ![c] = AfterLoadOrSign(looked, cached)]
                ELSE calls' = [calls EXCEPT ![c] =
                         [looked EXCEPT !.pc = "signTypedData", !.start = now]]
    /\ UNCHANGED <<now, storage, keypair, storeClears>>
    /\ UNCHANGED exceptHandler

\* loadOrSign, step 3: the signer answers the signature request; a refusal
\* makes loadOrSign return null
SignerAnswers(c, signed) ==
    LET rec == calls[c] IN
    /\ rec.pc = "signTypedData"
    /\ IF signed
       THEN LET signature == NewSignature(rec, keypair) IN
            /\ storage' = SetItem(storage, StorageKey(UserAddress, rec.addresses, keypair),
                                  signature)
            /\ calls' = [calls EXCEPT ![c] =
                   AfterLoadOrSign([rec EXCEPT !.log = @ \cup {"signTypedData", "setItem"},
                                               !.start = 0],
                                   signature)]
       ELSE /\ storage' = storage
            /\ calls' = [calls EXCEPT ![c] =
                   AfterLoadOrSign([rec EXCEPT !.log = @ \cup {"signTypedData"},
                                               !.failed = @ \cup {"signTypedData"},
                                               !.start = 0],
                                   NoSignature)]
    /\ UNCHANGED <<now, keypair, storeClears>>
    /\ UNCHANGED exceptHandler

\* the store after clearSignatureCache(addresses): both failures are swallowed
ClearedStorage(st, addresses, addressOk, removeOk) ==
    IF addressOk /\ removeOk
    THEN RemoveItem(st, CacheKey(UserAddress, addresses, PublicKeyOrEmpty(keypair)))
    ELSE st

\* the entries of the store that authorize exactly the contract set
EntriesFor(st, contracts) ==
    {e \in st : Range(e.value.contractAddresses) = contracts}

\* the collaborator calls clearSignatureCache makes, and those that failed
ClearLog(addressOk) == {"getAddress"} \cup (IF addressOk THEN {"removeItem"} ELSE {})

ClearFailed(addressOk, removeOk) ==
    IF ~addressOk THEN {"getAddress"} ELSE IF ~removeOk THEN {"removeItem"} ELSE {}

\* decryptMany: await this.clearSignatureCache(uniqueAddresses), then the
\* second loadOrSign
Evict(c, addressOk, removeOk) ==
    LET rec == calls[c] IN
    /\ rec.pc = "clearSignatureCache"
    /\ storage' = ClearedStorage(storage, rec.addresses, addressOk, removeOk)
    /\ calls' = [calls EXCEPT ![c] =
           [rec EXCEPT !.pc = "loadOrSign", !.phase = 2,
                       !.log = @ \cup ClearLog(addressOk),
                       !.failed = @ \cup ClearFailed(addressOk, removeOk)]]
    /\ UNCHANGED <<now, keypair, storeClears>>
    /\ UNCHANGED exceptHandler

\* a clearSignatureCache without its try/catch
ClearOutcomeUncaught(addressOk, removeOk) ==
    IF addressOk /\ removeOk THEN ResolvedVoid
    ELSE IF ~addressOk THEN Rejected(Propagated(SignerFailure))
    ELSE Rejected(Propagated(StorageFailure))

\* clearSignatureCache: the catch block warns and the promise resolves
ClearOutcome(addressOk, removeOk) == ResolvedVoid

\* clearSignatureCache(contractAddresses)
ClearSignatureCache(c, addresses, addressOk, removeOk) ==
    /\ CanCall(c)
    /\ storage' = ClearedStorage(storage, addresses, addressOk, removeOk)
    /\ calls' = [calls EXCEPT ![c] =
           Finish([IdleCall EXCEPT !.op = "clearSignatureCache",
                                   !.addresses = addresses,
                                   !.array = SortedCopy(addresses).array,
                                   !.key = IF addressOk
                                           THEN CacheKey(UserAddress, addresses,
                                                         PublicKeyOrEmpty(keypair))
                                           ELSE <<>>,
                                   !.cachedBefore =
                                       EntriesFor(storage, Range(addresses)) # {},
                                   !.log = ClearLog(addressOk),
                                   !.failed = ClearFailed(addressOk, removeOk)],
                  ClearOutcome(addressOk, removeOk))]
    /\ UNCHANGED <<now, keypair, storeClears>>
    /\ UNCHANGED exceptHandler

\* storage.clear()
ClearAll(st) == {}

\* clearAllSignatures(): storage.clear() when the store has one, its failure
\* swallowed
ClearAllSignatures(c, clearOk) ==
    /\ CanCall(c)
    /\ storage' = IF storeClears /\ clearOk THEN ClearAll(storage) ELSE storage
    /\ calls' = [calls EXCEPT ![c] =
           Finish([IdleCall EXCEPT !.op = "clearAllSignatures",
                                   !.log = IF storeClears THEN {"clear"} ELSE {},
                                   !.failed = IF storeClears /\ ~clearOk
                                              THEN {"clear"} ELSE {}],
                  ResolvedVoid)]
    /\ UNCHANGED <<now, keypair, storeClears>>
    /\ UNCHANGED exceptHandler

\* a probe without its try/catch
HasValidOutcomeUncaught(addressOk, lookupOk, cached) ==
    IF ~addressOk THEN Rejected(Propagated(SignerFailure))
    ELSE IF ~lookupOk THEN Rejected(Propagated(StorageFailure))
    ELSE ResolvedFlag(cached # NoSignature /\ IsValid(cached, now))

\* hasValidSignature: cached !== null && cached.isValid(), false from the catch
HasValidOutcome(addressOk, lookupOk, cached) ==
    IF addressOk /\ lookupOk
    THEN ResolvedFlag(cached # NoSignature /\ IsValid(cached, now))
    ELSE ResolvedFlag(FALSE)

\* hasValidSignature(contractAddresses): false when anything throws
HasValidSignature(c, addresses, addressOk, lookupOk) ==
    LET cached == LoadFromGenericStringStorage(storage, addresses, keypair) IN
    /\ CanCall(c)
    /\ calls' = [calls EXCEPT ![c] =
           Finish([IdleCall EXCEPT !.op = "hasValidSignature",
                                   !.addresses = addresses, !.array = addresses,
                                   !.log = {"getAddress"} \cup
                                           (IF addressOk THEN {"getItem"} ELSE {}),
                                   !.failed = IF ~addressOk THEN {"getAddress"}
                                              ELSE IF ~lookupOk THEN {"getItem"}
                                              ELSE {}],
                  HasValidOutcome(addressOk, lookupOk, cached))]
    /\ UNCHANGED <<now, storage, keypair, storeClears>>
    /\ UNCHANGED exceptHandler

\* userDecrypt resolves with a result map
EngineReturns(c, m) ==
    LET rec == calls[c] IN
    /\ rec.pc = "userDecrypt"
    /\ m \in ResultMaps(rec.requests)
    /\ calls' = [calls EXCEPT ![c] = Finish([rec EXCEPT !.results = m], ResolvedMap(m))]
    /\ UNCHANGED <<now, storage, keypair, storeClears>>
    /\ UNCHANGED exceptHandler

\* userDecrypt throws
EngineThrows(c, thrown) ==
    LET rec == calls[c] IN
    /\ rec.pc = "userDecrypt"
    /\ calls' = [calls EXCEPT ![c] =
           Finish([rec EXCEPT !.thrown = thrown], Rejected(DecryptionError(thrown)))]
    /\ UNCHANGED <<now, storage, keypair, storeClears>>
    /\ UNCHANGED exceptHandler

\* the caller's await of a settled operation returns
Return(c) ==
    /\ calls[c].pc = "done"
    /\ calls' = [calls EXCEPT ![c] = IdleCall]
    /\ UNCHANGED <<now, storage, keypair, storeClears>>
    /\ UNCHANGED exceptHandler

\* the wall clock advances
Tick ==
    /\ now < MaxTime
    /\ now' = now + 1
    /\ UNCHANGED <<storage, keypair, calls, storeClears>>
    /\ UNCHANGED exceptHandler

DecryptionInit ==
    /\ ClientConstructed
    /\ BuilderConstructed
    /\ HooksMounted
    /\ \E kp \in Keypairs, clears \in BOOLEAN : HandlerConstructed(kp, clears)

DecryptionNext ==
    \/ \E c \in Sequential, r \in RequestPool : Decrypt(c, r)
    \/ \E c \in Sequential, rs \in RequestLists : DecryptMany(c, rs)
    \/ \E c \in Sequential, rs \in RequestLists : DecryptManyOrdered(c, rs)
    \/ \E c \in Sequential, as \in AddressLists : PreloadSignature(c, as)
    \/ \E c \in Sequential, ok \in BOOLEAN : LoadOrSignLookup(c, ok)
    \/ \E c \in Sequential, ok \in BOOLEAN : SignerAnswers(c, ok)
    \/ \E c \in Sequential, ok \in BOOLEAN, rm \in BOOLEAN : Evict(c, ok, rm)
    \/ \E c \in Sequential, as \in AddressLists, ok \in BOOLEAN, rm \in BOOLEAN :
            ClearSignatureCache(c, as, ok, rm)
    \/ \E c \in Sequential, as \in AddressLists, ok \in BOOLEAN, lk \in BOOLEAN :
            HasValidSignature(c, as, ok, lk)
    \/ \E c \in Sequential, ok \in BOOLEAN : ClearAllSignatures(c, ok)
    \/ \E c \in Sequential : \E m \in ResultMaps(calls[c].requests) : EngineReturns(c, m)
    \/ \E c \in Sequential, thrown \in EngineThrown : EngineThrows(c, thrown)
    \/ \E c \in Sequential : Return(c)
    \/ Tick

DecryptionSpec == DecryptionInit /\ [][DecryptionNext]_allvars

\* Two callers, each making one decryptMany call on the same coordinator
\* over one contract set, the store empty at first; the signer signs, the
\* engine answers, and the clock stays within the validity window.

\* decryptMany(requests) of caller c, over the contract set of the call in flight
ConcurrentDecryptMany(c, requests) ==
    /\ Len(requests) > 0
    /\ \A d \in Callers :
          calls[d].op # "none"
              => Range(calls[d].addresses) = Range(UniqueAddresses(requests))
    /\ DecryptMany(c, requests)

ConcurrentInit ==
    /\ ClientConstructed
    /\ BuilderConstructed
    /\ HooksMounted
    /\ \E kp \in Keypairs : HandlerConstructed(kp, FALSE)

ConcurrentNext ==
    \/ \E c \in Callers, rs \in RequestLists : ConcurrentDecryptMany(c, rs)
    \/ \E c \in Callers : LoadOrSignLookup(c, TRUE)
    \/ \E c \in Callers : SignerAnswers(c, TRUE)
    \/ \E c \in Callers : \E m \in ResultMaps(calls[c].requests) : EngineReturns(c, m)

ConcurrentSpec == ConcurrentInit /\ [][ConcurrentNext]_allvars

\* ------------------------------------------------------------------------
\* Properties of the decryption coordinator
\* ------------------------------------------------------------------------

DecryptOps == {"decrypt", "decryptMany", "decryptManyOrdered"}

\* the contracts the requests of a call reference
ContractSet(requests) == Range(ContractsOf(requests))

\* the step in which caller c hands a batch to userDecrypt
EngineInvoked(c) == calls[c].pc # "userDecrypt" /\ calls'[c].pc = "userDecrypt"

\* a step of the operation caller c runs
Acts(c) == calls'[c] # calls[c]

\* C13: decryptMany invokes userDecrypt only with an Authorization that it
\* obtained in that call for the contracts of the batch and that is valid when
\* it is checked; an invalid first Authorization is evicted (unless the signer
\* or the store fails during the eviction, which is swallowed) and a fresh one
\* is requested; when the signer yields none, or the fresh one is invalid too,
\* the call fails and userDecrypt has not been invoked.
C13_EngineOnlyWithValidAuthorization ==
    [][\A c \in Callers :
        LET rec == calls[c]
            rec2 == calls'[c]
        IN
        /\ EngineInvoked(c)
            => /\ rec2.signature # NoSignature
               /\ IsValid(rec2.signature, now)
               /\ Range(rec2.signature.contractAddresses) = ContractSet(rec2.requests)
               /\ "getItem" \in rec2.log
        /\ (Acts(c) /\ rec.pc = "signTypedData" /\ rec.op \in DecryptOps /\ rec.phase = 1
                /\ "signTypedData" \notin rec2.failed
                /\ ~IsValid(NewSignature(rec, keypair), now))
            => rec2.pc = "clearSignatureCache"
        /\ (Acts(c) /\ rec.pc = "clearSignatureCache")
            => /\ rec2.pc = "loadOrSign" /\ rec2.phase = 2
               /\ rec2.failed = {} => EntriesFor(storage', ContractSet(rec.requests)) = {}
        /\ (Acts(c) /\ rec.pc = "loadOrSign" /\ rec.phase = 2
                /\ "getAddress" \notin rec2.failed)
            => rec2.pc = "signTypedData"
        /\ (Acts(c) /\ rec.pc = "signTypedData" /\ rec.op \in DecryptOps
                /\ ("signTypedData" \in rec2.failed
                    \/ (rec.phase = 2 /\ ~IsValid(NewSignature(rec, keypair), now))))
            => /\ rec2.pc = "done"
               /\ rec2.result.kind = "rejected"
               /\ rec2.result.error \in {NoSignatureError, ExpiredError}
               /\ "userDecrypt" \notin rec2.log
      ]_allvars

\* the first Authorization had expired, it was evicted, and the fresh one is
\* handed to userDecrypt
C13_Witness ==
    \E c \in Callers :
        /\ calls[c].pc = "userDecrypt"
        /\ calls[c].phase = 2
        /\ "removeItem" \in calls[c].log
        /\ calls[c].failed = {}
        /\ IsValid(calls[c].signature, now)

\* C14: when the store holds a valid Authorization for exactly the contracts
\* the requests reference, in whatever order and with whatever repetition the
\* requests name them, decryptMany takes that Authorization from the store
\* and goes on to userDecrypt without a signature request; preloadSignature
\* never invokes userDecrypt.
C14_StoredAuthorizationIsReused ==
    [][\A c \in Callers :
        LET rec == calls[c]
            rec2 == calls'[c]
        IN
        /\ (Acts(c) /\ rec.pc = "loadOrSign" /\ rec.op \in DecryptOps /\ rec.phase = 1
                /\ "getAddress" \notin rec2.failed)
            => \A e \in EntriesFor(storage, ContractSet(rec.requests)) :
                  IsValid(e.value, now)
                  => /\ rec2.pc = "userDecrypt"
                     /\ rec2.signature = e.value
                     /\ "signTypedData" \notin rec2.log
                     /\ storage' = storage
        /\ rec2.op = "preloadSignature" => "userDecrypt" \notin rec2.log
      ]_allvars

\* an Authorization stored by an earlier call serves a batch that names its
\* contract twice
C14_Witness ==
    \E c \in Callers :
        /\ calls[c].op = "decryptMany"
        /\ calls[c].pc = "userDecrypt"
        /\ Len(calls[c].requests) = MaxRequests
        /\ Cardinality(ContractSet(calls[c].requests)) = 1
        /\ calls[c].signature # NoSignature
        /\ "getItem" \in calls[c].log
        /\ "signTypedData" \notin calls[c].log

\* C15: clearSignatureCache(S), when the signer and the store answer, removes
\* the entry that authorizes exactly the contracts of S and no other entry,
\* whether or not the coordinator was given a key pair; with no entry for S
\* in the store hasValidSignature(S) returns false and a decryptMany over S
\* requests a new signature.
C15_ClearRemovesExactlyTheEntry ==
    [][\A c \in Callers :
        LET rec == calls[c]
            rec2 == calls'[c]
        IN
        /\ (Acts(c) /\ rec2.op = "clearSignatureCache" /\ rec2.failed = {})
            => storage' = storage \ EntriesFor(storage, Range(rec2.addresses))
        /\ (Acts(c) /\ rec2.op = "hasValidSignature"
                /\ EntriesFor(storage, Range(rec2.addresses)) = {})
            => rec2.result = ResolvedFlag(FALSE)
        /\ (Acts(c) /\ rec.pc = "loadOrSign" /\ rec.op \in DecryptOps
                /\ "getAddress" \notin rec2.failed
                /\ EntriesFor(storage, ContractSet(rec.requests)) = {})
            => rec2.pc = "signTypedData"
      ]_allvars

\* a coordinator without a key pair has cleared the entry of {A, B}, named
\* as [B, A], and the entry of another contract set is still in the store
C15_Witness ==
    \E c \in Callers :
        /\ keypair = NoKeypair
        /\ calls[c].op = "clearSignatureCache"
        /\ calls[c].pc = "done"
        /\ calls[c].addresses = <<"0xB", "0xA">>
        /\ calls[c].cachedBefore
        /\ calls[c].failed = {}
        /\ EntriesFor(storage, ContractAddresses) = {}
        /\ storage # {}

\* the enumerations of the contracts of a list
PermutationsOf(l) == {p \in AddressLists : Range(p) = Range(l) /\ Len(p) = Len(l)}

\* C16: the cache key clearSignatureCache computes for a contract-address
\* list is the key of every permutation of that list, for the same user
\* address and public key, and the caller's array is left in its order.
C16_CacheKeyIgnoresOrder ==
    \A c \in Callers :
        (calls[c].op = "clearSignatureCache" /\ "getAddress" \notin calls[c].failed)
        => /\ \A p \in PermutationsOf(calls[c].addresses) :
                CacheKey(UserAddress, p, PublicKeyOrEmpty(keypair)) = calls[c].key
           /\ calls[c].array = calls[c].addresses

\* the key of [B, A] names the contracts as A, B and the array still reads B, A
C16_Witness ==
    \E c \in Callers :
        /\ calls[c].op = "clearSignatureCache"
        /\ calls[c].addresses = <<"0xB", "0xA">>
        /\ calls[c].array = <<"0xB", "0xA">>
        /\ calls[c].key = <<"fhevm_signature", UserAddress, <<"0xA", "0xB">>,
                            SuppliedKeypair.publicKey>>

\* C17: decryptMany([]) resolves to an empty map and has called neither the
\* signer nor the storage nor the engine.
C17_EmptyBatchTouchesNothing ==
    [][\A c \in Callers :
        (Acts(c) /\ calls'[c].op = "decryptMany" /\ calls'[c].requests = <<>>)
        => /\ calls'[c].pc = "done"
           /\ calls'[c].result = ResolvedMap(<<>>)
           /\ calls'[c].log = {}
           /\ storage' = storage
      ]_allvars

\* decryptMany([]) has settled while the store holds an Authorization
C17_Witness ==
    \E c \in Callers :
        /\ calls[c].op = "decryptMany"
        /\ calls[c].requests = <<>>
        /\ calls[c].pc = "done"
        /\ calls[c].result.kind = "resolved"
        /\ DOMAIN calls[c].result.map = {}
        /\ storage # {}

\* userDecrypt has returned a result map to the operation of caller c
EngineReturned(c) ==
    /\ calls[c].pc = "done"
    /\ "userDecrypt" \in calls[c].log
    /\ calls[c].thrown = NoCause

\* C18: decrypt(request) returns the engine's value for request.handle when
\* the result map has an entry for that handle, a falsy value included, and
\* fails with the missing-result error exactly when the map has no such entry.
C18_DecryptReturnsEntry ==
    \A c \in Callers :
        (calls[c].op = "decrypt" /\ EngineReturned(c))
        => LET h == calls[c].requests[1].handle
               m == calls[c].results
           IN  /\ h \in DOMAIN m => calls[c].result = ResolvedValue(m[h])
               /\ calls[c].result = Rejected(MissingHandleError(h)) <=> h \notin DOMAIN m

\* decrypt has returned the falsy value the engine gave for the handle
C18_Witness ==
    \E c \in Callers :
        /\ calls[c].op = "decrypt"
        /\ EngineReturned(c)
        /\ calls[c].results = [h \in {"0xh1"} |-> "false"]
        /\ calls[c].result.kind = "resolved"
        /\ calls[c].result.value = "false"

\* C19: decryptManyOrdered(requests) returns a sequence as long as requests
\* whose i-th element is the engine's value for requests[i].handle, repeated
\* handles and falsy values included, and fails with the missing-result
\* error exactly when a requested handle has no entry in the result map.
C19_OrderedProjection ==
    \A c \in Callers :
        (calls[c].op = "decryptManyOrdered"
            /\ (EngineReturned(c) \/ (calls[c].pc = "done" /\ calls[c].requests = <<>>)))
        => LET rs == calls[c].requests
               m == calls[c].results
               absent == {i \in 1..Len(rs) : rs[i].handle \notin DOMAIN m}
               r == calls[c].result
           IN  /\ absent = {}
                    => /\ r.kind = "resolved"
                       /\ Len(r.list) = Len(rs)
                       /\ \A i \in 1..Len(rs) : r.list[i] = m[rs[i].handle]
               /\ (r.kind = "rejected") <=> (absent # {})
               /\ r.kind = "rejected"
                    => \E i \in absent : r.error = MissingResultError(rs[i].handle)

\* a handle requested twice yields its falsy value twice
C19_Witness ==
    \E c \in Callers :
        /\ calls[c].op = "decryptManyOrdered"
        /\ EngineReturned(c)
        /\ Len(calls[c].requests) = MaxRequests
        /\ calls[c].requests[1] = calls[c].requests[MaxRequests]
        /\ calls[c].result.kind = "resolved"
        /\ \A i \in 1..MaxRequests : calls[c].result.list[i] = "0n"

\* C20: whenever userDecrypt throws, whatever the thrown value, the call
\* fails with a decryption error whose cause is the thrown value.
C20_CauseCarried ==
    \A c \in Callers :
        (calls[c].pc = "done" /\ calls[c].thrown # NoCause)
        => /\ calls[c].result.kind = "rejected"
           /\ calls[c].result.error.message[1] = "Decryption failed: "
           /\ calls[c].result.error.cause = calls[c].thrown

\* C21: hasValidSignature never throws; it returns true exactly when the
\* signer and the lookup answer and the store holds a valid Authorization for
\* the contract set, and false when getAddress or the lookup fails.
C21_ProbeNeverThrows ==
    [][\A c \in Callers :
        (Acts(c) /\ calls'[c].op = "hasValidSignature")
        => LET rec2 == calls'[c]
               held == \E e \in EntriesFor(storage, Range(rec2.addresses)) :
                           IsValid(e.value, now)
           IN  /\ rec2.pc = "done"
               /\ rec2.result.kind = "resolved"
               /\ rec2.result.flag <=> (rec2.failed = {} /\ held)
               /\ rec2.failed # {} => rec2.result = ResolvedFlag(FALSE)
               /\ storage' = storage
      ]_allvars

\* the probe failed at the lookup while a valid Authorization was in the
\* store, and answered false
C21_Witness ==
    \E c \in Callers :
        /\ calls[c].op = "hasValidSignature"
        /\ calls[c].pc = "done"
        /\ calls[c].failed = {"getItem"}
        /\ calls[c].result = ResolvedFlag(FALSE)
        /\ \E e \in EntriesFor(storage, Range(calls[c].addresses)) : IsValid(e.value, now)

\* C22: clearSignatureCache and clearAllSignatures always resolve; when
\* getAddress, removeItem or clear fails the store is left as it was, and
\* clearAllSignatures neither calls nor changes a store that has no clear.
C22_ClearingNeverThrows ==
    [][\A c \in Callers :
        LET rec2 == calls'[c] IN
        /\ (Acts(c) /\ rec2.op \in {"clearSignatureCache", "clearAllSignatures"})
            => /\ rec2.pc = "done"
               /\ rec2.result = ResolvedVoid
               /\ rec2.failed # {} => storage' = storage
        /\ (Acts(c) /\ rec2.op = "clearAllSignatures")
            => IF storeClears
               THEN rec2.failed = {} => storage' = {}
               ELSE storage' = storage /\ rec2.log = {}
        /\ (Acts(c) /\ calls[c].pc = "clearSignatureCache")
            => rec2.pc = "loadOrSign"
      ]_allvars

\* removeItem failed, the call resolved, and the entry is still in the store
C22_Witness ==
    \E c \in Callers :
        /\ calls[c].op = "clearSignatureCache"
        /\ calls[c].pc = "done"
        /\ calls[c].failed = {"removeItem"}
        /\ calls[c].result = ResolvedVoid
        /\ EntriesFor(storage, Range(calls[c].addresses)) # {}


\* C31: after any interleaving of two concurrent decryptMany calls over the
\* same contract set on an empty store, both calls have returned what the
\* engine answered them, and the store holds one valid Authorization for
\* that set; at no point does it hold more than one entry
C31_ConcurrentCallsSucceed ==
    /\ Cardinality(storage) <= 1
    /\ \A e \in storage :
           \A c \in Callers :
               calls[c].op # "none" =>
                   /\ Range(e.value.contractAddresses) = Range(calls[c].addresses)
                   /\ IsValid(e.value, now)
    /\ \A c \in Callers :
           calls[c].pc = "done" =>
               /\ calls[c].result = ResolvedMap(calls[c].results)
               /\ Cardinality(storage) = 1
               /\ calls[c].failed = {}

\* both calls found the store empty, both signed, both returned, their
\* request lists naming the contracts in opposite orders
C31_Witness ==
    /\ \A c \in Callers :
           /\ calls[c].pc = "done"
           /\ "signTypedData" \in calls[c].log
           /\ calls[c].result.kind = "resolved"
    /\ calls["caller"].addresses = <<"0xA", "0xB">>
    /\ calls["other"].addresses = <<"0xB", "0xA">>
    /\ Cardinality(storage) = 1

\* ------------------------------------------------------------------------
\* The encrypted input builder (EncryptionBuilder)
\*
\* The builder forwards each accepted value to the engine's input object,
\* which accumulates typed entries, and asks that object to encrypt the
\* whole batch.  The engine's input object is outside the repository: it is
\* taken to append what it is given and to answer encrypt() with one handle
\* per entry and a proof, or to throw.
\* ------------------------------------------------------------------------

\* entries one builder is given, and engine encryptions asked of it
MaxEntries == 2
MaxEncrypts == 2

\* the widths' largest values and the length of an address string
Uint8Max == 255
Uint16Max == 65535
AddressLength == 42

Repeat(ch, n) == [i \in 1..n |-> ch]

HexDigits == <<"0", "1", "2", "3", "4", "5", "6", "7",
               "8", "9", "a", "b", "c", "d", "e", "f">>

UpperHexDigits == {"A", "B", "C", "D", "E", "F"}

\* the numbers handed to addUint8: around zero and around the largest
\* 8-bit value, each also with a fractional part
Uint8Inputs ==
    {NumberValue(n, half) :
        n \in {0 - 1, 0, Uint8Max, Uint8Max + 1}, half \in BOOLEAN}

\* the numbers handed to addUint16: around the largest 16-bit value
Uint16Inputs ==
    {NumberValue(n, half) : n \in {Uint16Max, Uint16Max + 1}, half \in BOOLEAN}

\* the strings handed to addAddress: a well-formed address, one digit short,
\* one without the prefix, and one of the right shape whose digits are not
\* hexadecimal
GoodAddress == <<"0", "x">> \o Repeat("1", 40)
NonHexAddress == <<"0", "x">> \o Repeat("Z", 40)
AddressInputs ==
    {StringValue(a) :
        a \in {GoodAddress, NonHexAddress,
               <<"0", "x">> \o Repeat("1", 39), Repeat("1", 42)}}

\* value.startsWith(prefix)
StartsWith(s, prefix) ==
    Len(s) >= Len(prefix) /\ SubSeq(s, 1, Len(prefix)) = prefix

\* a 0x-prefixed string of exactly 40 hexadecimal digits
IsHexAddress(s) ==
    /\ Len(s) = 42
    /\ StartsWith(s, <<"0", "x">>)
    /\ \A i \in 3..Len(s) : s[i] \in Range(HexDigits) \cup UpperHexDigits

\* Number.isInteger(value)
IsInteger(v) == v.type = "number" /\ ~v.half

\* value < k and value > k for a number n or n + 1/2 and an integer k
LessThan(v, k) == v.n < k
GreaterThan(v, k) == IF v.half THEN v.n >= k ELSE v.n > k

\* a range check that lets fractional values through
ValidUint8Fractional(v) == ~(LessThan(v, 0) \/ GreaterThan(v, Uint8Max))

\* addUint8's check
ValidUint8(v) == ~(~IsInteger(v) \/ LessThan(v, 0) \/ GreaterThan(v, Uint8Max))

\* addUint16's check
ValidUint16(v) == ~(~IsInteger(v) \/ LessThan(v, 0) \/ GreaterThan(v, Uint16Max))

\* addAddress's check
ValidAddress(v) == ~(~StartsWith(v.s, <<"0", "x">>) \/ Len(v.s) # AddressLength)

\* whether the add method's own check lets the value through
Validation(c) ==
    CASE c.method = "addBool" -> TRUE
      [] c.method = "addUint8" -> ValidUint8(c.value)
      [] c.method = "addUint16" -> ValidUint16(c.value)
      [] c.method = "addAddress" -> ValidAddress(c.value)

\* a builder that hands every value to the engine as an 8-bit one
EngineMethodAlways8(method) == "add8"

\* the engine method each add method forwards to
EngineMethod(method) ==
    CASE method = "addBool" -> "addBool"
      [] method = "addUint8" -> "add8"
      [] method = "addUint16" -> "add16"
      [] method = "addAddress" -> "addAddress"

\* the engine's accumulator takes the entry at its end
EngineAdd(acc, kind, value) == Append(acc, [kind |-> kind, value |-> value])

\* the Error an add method throws for a value it rejects
ValidationError(method) ==
    PlainError(CASE method = "addUint8" -> <<"Invalid uint8 value">>
                 [] method = "addUint16" -> <<"Invalid uint16 value">>
                 [] method = "addAddress" -> <<"Invalid address">>
                 [] OTHER -> <<>>)

\* the bytes the engine's handles and proofs are made of here
HandlePool == {<<0, 10>>, <<171, 255>>}
ProofPool == {<<0, 16, 254>>}

\* what the engine's encrypt() may answer for an accumulator: one handle for
\* each entry, and a proof
EngineResults(acc) ==
    {[handles |-> h, inputProof |-> p] :
        h \in [1..Len(acc) -> HandlePool], p \in ProofPool}

\* b.toString(16): one digit below sixteen, two digits from there on
ToString16(b) ==
    IF b < 16 THEN <<HexDigits[b + 1]>>
    ELSE <<HexDigits[(b \div 16) + 1], HexDigits[(b % 16) + 1]>>

\* a padStart that pads nothing
PadStartNone(s, n, ch) == s

\* s.padStart(n, ch)
PadStart(s, n, ch) == IF Len(s) < n THEN Repeat(ch, n - Len(s)) \o s ELSE s

RECURSIVE Join(_)
Join(parts) == IF parts = <<>> THEN <<>> ELSE Head(parts) \o Join(Tail(parts))

\* toHex(value)
toHex(value) ==
    <<"0", "x">> \o
    Join([i \in 1..Len(value) |-> PadStart(ToString16(value[i]), 2, "0")])

\* the Error encrypt() throws when the engine threw
EncryptionError(thrown) ==
    [message |-> <<"Encryption failed: ",
                   IF IsError(thrown) THEN thrown.text ELSE "Unknown error">>,
     cause |-> NoCause]

\* an engine invocation that is made for the first call only
InvokeEncryptOnce(n) == IF n = 0 THEN 1 ELSE n

\* await this._input.encrypt(): one more engine invocation
InvokeEncrypt(n) == n + 1

\* one add method called with one value: the check, then the engine's add
Add(c) ==
    /\ Validation(c) => Len(input) < MaxEntries
    /\ IF Validation(c)
       THEN /\ input' = EngineAdd(input, EngineMethod(c.method), c.value)
            /\ added' = Append(added, c)
            /\ blast' = [NoBuilderCall EXCEPT !.op = c.method, !.arg = c,
                                              !.outcome = "returned"]
       ELSE /\ UNCHANGED <<input, added>>
            /\ blast' = [NoBuilderCall EXCEPT !.op = c.method, !.arg = c,
                                              !.outcome = "threw",
                                              !.error = ValidationError(c.method)]
    /\ UNCHANGED encryptCalls
    /\ UNCHANGED exceptBuilder

AddBool(value) == Add([method |-> "addBool", value |-> BooleanValue(value)])
AddUint8(value) == Add([method |-> "addUint8", value |-> value])
AddUint16(value) == Add([method |-> "addUint16", value |-> value])
AddAddress(value) == Add([method |-> "addAddress", value |-> value])

\* the callbacks handed to addMultiple: the add calls they make, in order
Callbacks ==
    LET cs == {[method |-> "addUint8", value |-> NumberValue(0, FALSE)],
               [method |-> "addUint8", value |-> NumberValue(Uint8Max + 1, FALSE)]}
    IN  {<<>>} \cup {<<a>> : a \in cs} \cup {<<a, b>> : a, b \in cs}

\* fn(this): the add calls run in turn, up to the first one that throws
RECURSIVE RunCallback(_, _, _)
RunCallback(fn, acc, done) ==
    IF fn = <<>> THEN [input |-> acc, added |-> done, threw |-> NoArg]
    ELSE IF Validation(Head(fn))
         THEN RunCallback(Tail(fn),
                          EngineAdd(acc, EngineMethod(Head(fn).method), Head(fn).value),
                          Append(done, Head(fn)))
         ELSE [input |-> acc, added |-> done, threw |-> Head(fn)]

AddMultiple(fn) ==
    LET r == RunCallback(fn, input, added) IN
    /\ Len(input) + Len(fn) <= MaxEntries
    /\ input' = r.input
    /\ added' = r.added
    /\ blast' = IF r.threw = NoArg
                THEN [NoBuilderCall EXCEPT !.op = "addMultiple", !.outcome = "returned"]
                ELSE [NoBuilderCall EXCEPT !.op = "addMultiple", !.arg = r.threw,
                                           !.outcome = "threw",
                                           !.error = ValidationError(r.threw.method)]
    /\ UNCHANGED encryptCalls
    /\ UNCHANGED exceptBuilder

\* the hex rendering of an engine result
Rendered(r) ==
    [handles |-> [i \in 1..Len(r.handles) |-> toHex(r.handles[i])],
     inputProof |-> toHex(r.inputProof)]

\* encrypt(), and encryptToHex() which calls it and renders what it returns.
\* blast.result keeps what the engine answered; encryptToHex returns blast.hex
EncryptCall(op) ==
    /\ encryptCalls < MaxEncrypts
    /\ encryptCalls' = InvokeEncrypt(encryptCalls)
    /\ \/ \E r \in EngineResults(input) :
            blast' = [NoBuilderCall EXCEPT
                        !.op = op, !.outcome = "returned", !.result = r,
                        !.hex = IF op = "encryptToHex" THEN Rendered(r) ELSE NoEncrypted]
       \/ \E thrown \in EngineThrown :
            blast' = [NoBuilderCall EXCEPT
                        !.op = op, !.outcome = "threw", !.thrown = thrown,
                        !.error = EncryptionError(thrown)]
    /\ UNCHANGED <<input, added>>
    /\ UNCHANGED exceptBuilder

Encrypt == EncryptCall("encrypt")
EncryptToHex == EncryptCall("encryptToHex")

BuilderInit == Init

BuilderNext ==
    \/ \E value \in BOOLEAN : AddBool(value)
    \/ \E value \in Uint8Inputs : AddUint8(value)
    \/ \E value \in Uint16Inputs : AddUint16(value)
    \/ \E value \in AddressInputs : AddAddress(value)
    \/ \E fn \in Callbacks : AddMultiple(fn)
    \/ Encrypt
    \/ EncryptToHex

BuilderSpec == BuilderInit /\ [][BuilderNext]_allvars


\* ------------------------------------------------------------------------
\* Claims about the builder
\* ------------------------------------------------------------------------

\* C23: addUint8(v) returns and appends v to the accumulator for every
\* integer v in [0,255]; for every other v, fractional ones included, it
\* throws its validation error without an engine call and leaves the
\* accumulator as it was
C23_Uint8Validated ==
    [][blast'.op = "addUint8" =>
         LET v == blast'.arg.value IN
         IF ~v.half /\ 0 <= v.n /\ v.n <= 255
         THEN /\ blast'.outcome = "returned"
              /\ input' = Append(input, [kind |-> "add8", value |-> v])
         ELSE /\ blast'.outcome = "threw"
              /\ blast'.error = ValidationError("addUint8")
              /\ input' = input
      ]_bvars

\* a fractional value was rejected after one value had been accepted
C23_Witness ==
    /\ blast.op = "addUint8"
    /\ blast.outcome = "threw"
    /\ blast.arg.value.half
    /\ Len(input) = 1

\* C24: when the engine's encrypt throws, encrypt() and encryptToHex() throw
\* an error that has what the engine threw as its cause
C24_CauseAttached ==
    (blast.op \in {"encrypt", "encryptToHex"} /\ blast.outcome = "threw")
        => blast.error.cause = blast.thrown

\* C25: the engine's accumulator holds, in kind, value and order, the add
\* calls that returned, and a returned encryption has one handle for each
C25_EntriesFollowAdds ==
    LET kindOf(method) ==
            CASE method = "addBool" -> "addBool"
              [] method = "addUint8" -> "add8"
              [] method = "addUint16" -> "add16"
              [] method = "addAddress" -> "addAddress"
    IN  /\ Len(input) = Len(added)
        /\ \A i \in 1..Len(added) :
               input[i] = [kind |-> kindOf(added[i].method), value |-> added[i].value]
        /\ (blast.op \in {"encrypt", "encryptToHex"} /\ blast.outcome = "returned")
               => Len(blast.result.handles) = Len(added)

\* an address was added after a boolean and the two were encrypted
C25_Witness ==
    /\ Len(added) = 2
    /\ added[1].method = "addBool"
    /\ added[2].method = "addAddress"
    /\ blast.op = "encrypt"
    /\ blast.outcome = "returned"
    /\ Len(blast.result.handles) = 2

\* the value of a lowercase hexadecimal digit
DigitValue(ch) == CHOOSE d \in 0..15 : HexDigits[d + 1] = ch

\* the bytes a 0x-prefixed string of digit pairs stands for
FromHex(h) ==
    [i \in 1..((Len(h) - 2) \div 2) |->
        16 * DigitValue(h[2 * i + 1]) + DigitValue(h[2 * i + 2])]

\* h is 0x and two lowercase digits for each of the bytes, and reads back
\* as the bytes
RendersBytes(h, bytes) ==
    /\ Len(h) = 2 + 2 * Len(bytes)
    /\ SubSeq(h, 1, 2) = <<"0", "x">>
    /\ \A i \in 3..Len(h) : h[i] \in Range(HexDigits)
    /\ FromHex(h) = bytes

\* C26: encryptToHex returns, for each handle of the engine's result in
\* order and for the proof, 0x and two lowercase hex digits per byte, from
\* which the bytes can be read back
C26_HexRendering ==
    (blast.op = "encryptToHex" /\ blast.outcome = "returned") =>
        /\ Len(blast.hex.handles) = Len(blast.result.handles)
        /\ \A i \in 1..Len(blast.result.handles) :
               RendersBytes(blast.hex.handles[i], blast.result.handles[i])
        /\ RendersBytes(blast.hex.inputProof, blast.result.inputProof)

\* two different handles, one starting with a zero byte, were rendered
C26_Witness ==
    /\ blast.op = "encryptToHex"
    /\ blast.outcome = "returned"
    /\ blast.result.handles = <<<<0, 10>>, <<171, 255>>>>
    /\ blast.hex.handles[1] = <<"0", "x", "0", "0", "0", "a">>

\* C27: each encrypt() invokes the engine's encrypt once, over the
\* accumulator as it stands and without changing it; a later call is not
\* turned down by the builder, it fails only when the engine throws
C27_EncryptInvokesEngineOnce ==
    [][blast'.op \in {"encrypt", "encryptToHex"} =>
         /\ encryptCalls' = encryptCalls + 1
         /\ input' = input
         /\ blast'.outcome = "threw" => blast'.thrown \in EngineThrown
         /\ blast'.outcome = "returned" => blast'.result \in EngineResults(input)
      ]_bvars

\* a second encrypt() on the same builder returned
C27_Witness ==
    /\ encryptCalls = 2
    /\ blast.op = "encrypt"
    /\ blast.outcome = "returned"
    /\ Len(input) > 0

\* C28: addAddress returns and appends the value for a 0x-prefixed string of
\* exactly 40 hexadecimal digits, and for every other string throws its
\* validation error without an engine call
C28_AddressValidated ==
    [][blast'.op = "addAddress" =>
         LET v == blast'.arg.value IN
         IF IsHexAddress(v.s)
         THEN /\ blast'.outcome = "returned"
              /\ input' = Append(input, [kind |-> "addAddress", value |-> v])
         ELSE /\ blast'.outcome = "threw"
              /\ input' = input
      ]_bvars


\* ========================================================================
\* The React hooks (useFhevmDecrypt, useFhevmEncrypt, useFhevmClient)
\*
\* A hook's state is what its last render exposes; the calls made through
\* it are numbered in the order they start, and each is suspended at an
\* await until the promise it awaits settles.
\* ========================================================================

\* err instanceof Error ? err : new Error(fallback)
ToError(thrown, fallback) ==
    IF IsError(thrown) THEN thrown ELSE [kind |-> "Error", text |-> fallback]

\* the next call through a hook is call k
NextHookCall(cs, k) ==
    cs[k].pc = "none" /\ \A j \in HookCalls : j < k => cs[j].pc # "none"

\* ------------------------------------------------------------------------
\* useFhevmDecrypt

DecryptHookOps == {"decrypt", "decryptMany", "decryptManyOrdered"}

HandlerMissing == [kind |-> "Error", text |-> "Cannot decrypt: handler not initialized"]

\* what the handler's promise may reject with
HandlerThrown ==
    {[kind |-> "Error", text |-> "Decryption failed: relayer unavailable"],
     [kind |-> "string", text |-> "relayer unavailable"]}

\* the effect on [instance, signer]: a handler when both are there
HandlerEffect(present) ==
    /\ handler' = present
    /\ UNCHANGED <<isDecrypting, decryptError, dcalls>>
    /\ UNCHANGED exceptDecryptHook

\* decrypt, decryptMany and decryptManyOrdered of the hook, up to the await
UseDecrypt(k, op) ==
    /\ NextHookCall(dcalls, k)
    /\ IF ~handler
       THEN /\ dcalls' = [dcalls EXCEPT ![k] =
                    [op |-> op, pc |-> "rejected", error |-> HandlerMissing]]
            /\ UNCHANGED <<isDecrypting, decryptError>>
       ELSE /\ isDecrypting' = TRUE
            /\ decryptError' = NoCause
            /\ dcalls' = [dcalls EXCEPT ![k] = [NoHookCall EXCEPT !.op = op, !.pc = "pending"]]
    /\ UNCHANGED handler
    /\ UNCHANGED exceptDecryptHook

\* the handler's promise resolves: return result, then the finally block
HandlerResolves(k) ==
    /\ dcalls[k].pc = "pending"
    /\ dcalls' = [dcalls EXCEPT ![k].pc = "resolved"]
    /\ isDecrypting' = FALSE
    /\ UNCHANGED <<decryptError, handler>>
    /\ UNCHANGED exceptDecryptHook

\* the handler's promise rejects: the catch block, then the finally block
HandlerRejects(k, thrown) ==
    LET error == ToError(thrown, "Decryption failed") IN
    /\ dcalls[k].pc = "pending"
    /\ dcalls' = [dcalls EXCEPT ![k].pc = "rejected", ![k].error = error]
    /\ decryptError' = error
    /\ isDecrypting' = FALSE
    /\ UNCHANGED handler
    /\ UNCHANGED exceptDecryptHook

\* clearError()
ClearDecryptError ==
    /\ decryptError' = NoCause
    /\ UNCHANGED <<isDecrypting, handler, dcalls>>
    /\ UNCHANGED exceptDecryptHook

DecryptHookNext ==
    \/ \E present \in BOOLEAN : HandlerEffect(present)
    \/ \E k \in HookCalls, op \in DecryptHookOps : UseDecrypt(k, op)
    \/ \E k \in HookCalls : HandlerResolves(k)
    \/ \E k \in HookCalls, thrown \in HandlerThrown : HandlerRejects(k, thrown)
    \/ ClearDecryptError

DecryptHookSpec == Init /\ [][DecryptHookNext]_allvars

\* C32: isDecrypting is true exactly while a decrypt, decryptMany or
\* decryptManyOrdered call started through the hook has not settled
C32_BusyWhileAnyPending ==
    isDecrypting <=> (\E k \in HookCalls : dcalls[k].pc = "pending")


\* ------------------------------------------------------------------------
\* useFhevmEncrypt

EncryptHookOps == {"encrypt", "encryptToHex"}

CannotEncrypt ==
    [kind |-> "Error",
     text |-> "Cannot encrypt: missing instance, signer, or contract address"]

Cancelled == [kind |-> "Error", text |-> "Encryption was cancelled"]

\* what createBuilder, the builder function or the encrypt method may throw
EncryptThrown ==
    {[kind |-> "Error", text |-> "Encryption failed: relayer unavailable"],
     [kind |-> "string", text |-> "relayer unavailable"]}

\* the awaits of performEncryption, in order
Awaits == <<"createBuilder", "fn", "encryptMethod">>

InFlight(rec) == rec.pc \in Range(Awaits)

AfterAwait(pc) == IF pc = "createBuilder" THEN "fn" ELSE "encryptMethod"

\* controller.abort() on the controller the ref holds, if it holds one
AbortCurrent(cs, ref) ==
    IF ref # Null THEN [cs EXCEPT ![ref].aborted = TRUE] ELSE cs

\* a signal that never reads as aborted
SignalAbortedNever(rec) == FALSE

\* abortController.signal.aborted
SignalAborted(rec) == rec.aborted

\* a finally block that takes every call for the current one
IsCurrentAlways(ref, k) == TRUE

\* abortControllerRef.current === abortController
IsCurrent(ref, k) == ref = k

\* the finally block of call k
Finally(k) ==
    IF IsCurrent(abortControllerRef, k)
    THEN isEncrypting' = FALSE /\ abortControllerRef' = Null
    ELSE UNCHANGED <<isEncrypting, abortControllerRef>>

\* canEncrypt follows instance, signer and contractAddress
CanEncryptChanges(present) ==
    /\ canEncrypt' = present
    /\ UNCHANGED <<isEncrypting, encryptError, abortControllerRef, ecalls, unmounted>>
    /\ UNCHANGED exceptEncryptHook

\* encrypt(fn) and encryptToHex(fn): performEncryption up to its first await
PerformEncryption(k, op) ==
    /\ NextHookCall(ecalls, k)
    /\ ~unmounted
    /\ IF ~canEncrypt
       THEN /\ ecalls' = [ecalls EXCEPT ![k] =
                    [NoEncryptCall EXCEPT !.op = op, !.pc = "rejected",
                                          !.error = CannotEncrypt]]
            /\ UNCHANGED <<isEncrypting, encryptError, abortControllerRef>>
       ELSE /\ ecalls' = [AbortCurrent(ecalls, abortControllerRef) EXCEPT ![k] =
                    [NoEncryptCall EXCEPT !.op = op, !.pc = "createBuilder"]]
            /\ abortControllerRef' = k
            /\ isEncrypting' = TRUE
            /\ encryptError' = NoCause
    /\ UNCHANGED <<canEncrypt, unmounted>>
    /\ UNCHANGED exceptEncryptHook

\* the step call k awaits resolves: the check that follows it, then the next
\* await, the return, or the catch and finally blocks
AwaitResolves(k) ==
    LET rec == ecalls[k] IN
    /\ InFlight(rec)
    /\ IF SignalAborted(rec)
       THEN /\ ecalls' = [ecalls EXCEPT ![k].pc = "rejected", ![k].error = Cancelled]
            /\ Finally(k)
       ELSE IF rec.pc = "encryptMethod"
            THEN /\ ecalls' = [ecalls EXCEPT ![k].pc = "resolved"]
                 /\ Finally(k)
            ELSE /\ ecalls' = [ecalls EXCEPT ![k].pc = AfterAwait(rec.pc)]
                 /\ UNCHANGED <<isEncrypting, abortControllerRef>>
    /\ UNCHANGED <<encryptError, canEncrypt, unmounted>>
    /\ UNCHANGED exceptEncryptHook

\* the step call k awaits throws: the catch block, then the finally block
AwaitThrows(k, thrown) ==
    LET rec == ecalls[k]
        error == ToError(thrown, "Encryption failed")
    IN  /\ InFlight(rec)
        /\ IF ~SignalAborted(rec)
           THEN /\ encryptError' = error
                /\ ecalls' = [ecalls EXCEPT ![k].pc = "rejected", ![k].thrown = thrown,
                                            ![k].error = error]
           ELSE /\ encryptError' = encryptError
                /\ ecalls' = [ecalls EXCEPT ![k].pc = "rejected", ![k].thrown = thrown,
                                            ![k].error = Cancelled]
        /\ Finally(k)
        /\ UNCHANGED <<canEncrypt, unmounted>>
        /\ UNCHANGED exceptEncryptHook

\* the cleanup of the mount effect
Unmount ==
    /\ ~unmounted
    /\ unmounted' = TRUE
    /\ ecalls' = AbortCurrent(ecalls, abortControllerRef)
    /\ UNCHANGED <<isEncrypting, encryptError, abortControllerRef, canEncrypt>>
    /\ UNCHANGED exceptEncryptHook

\* clearError()
ClearEncryptError ==
    /\ encryptError' = NoCause
    /\ UNCHANGED <<isEncrypting, abortControllerRef, canEncrypt, ecalls, unmounted>>
    /\ UNCHANGED exceptEncryptHook

EncryptHookNext ==
    \/ \E present \in BOOLEAN : CanEncryptChanges(present)
    \/ \E k \in HookCalls, op \in EncryptHookOps : PerformEncryption(k, op)
    \/ \E k \in HookCalls : AwaitResolves(k)
    \/ \E k \in HookCalls, thrown \in EncryptThrown : AwaitThrows(k, thrown)
    \/ Unmount
    \/ ClearEncryptError

EncryptHookSpec == Init /\ [][EncryptHookNext]_allvars

\* the calls that got past the canEncrypt guard
Entered == {k \in HookCalls : ecalls[k].pc # "none" /\ ecalls[k].error # CannotEncrypt}

\* C33: isEncrypting is true as long as the most recent call is in flight,
\* whatever superseded calls complete meanwhile, and false once no call is
\* in flight
C33_BusyUntilLatestSettles ==
    /\ \A k \in Entered :
           (InFlight(ecalls[k]) /\ \A j \in Entered : j <= k) => isEncrypting
    /\ (\A k \in HookCalls : ~InFlight(ecalls[k])) => ~isEncrypting

\* the superseded first call has completed and the second is in flight
C33_Witness ==
    /\ ecalls[1].pc = "rejected"
    /\ ecalls[1].error = Cancelled
    /\ InFlight(ecalls[2])
    /\ isEncrypting

\* call k settles in this step
Settles(k) == InFlight(ecalls[k]) /\ ~InFlight(ecalls'[k])

\* C34: a call that was superseded or cancelled by unmount rejects with the
\* cancellation error and leaves the error state alone, whether its step
\* resolved or threw; a call that was not and whose step throws sets the
\* error state and rejects with that error
C34_CancelledCallsAreSilent ==
    [][\A k \in HookCalls :
          Settles(k) =>
              IF ecalls[k].aborted
              THEN /\ ecalls'[k].pc = "rejected"
                   /\ ecalls'[k].error = Cancelled
                   /\ encryptError' = encryptError
              ELSE ecalls'[k].thrown # NoCause =>
                       /\ ecalls'[k].pc = "rejected"
                       /\ ecalls'[k].error = ToError(ecalls'[k].thrown, "Encryption failed")
                       /\ encryptError' = ecalls'[k].error
      ]_evars

\* the engine step of a superseded call threw, and the call was rejected as
\* cancelled while the newer call is in flight and no error is set
C34_Witness ==
    /\ ecalls[1].aborted
    /\ ecalls[1].thrown # NoCause
    /\ ecalls[1].error = Cancelled
    /\ InFlight(ecalls[2])
    /\ encryptError = NoCause


\* ------------------------------------------------------------------------
\* useFhevmClient

\* the options of a render: enabled, whether a provider is passed, and the
\* chain id, Null when it is missing
OptionSets == [enabled : BOOLEAN, provider : BOOLEAN, chainId : {Null} \cup Configs]

\* the listener the hook subscribes: (event) => setState(event.state)
HookListener == 1

EnabledKey(enabled) == IF enabled THEN "true" ELSE "false"

\* the dependency array [provider, chainId, enabled] differs
DepsChanged(o) ==
    \/ o.provider # options.provider
    \/ o.chainId # options.chainId
    \/ o.enabled # options.enabled

\* setState(event.state) when the hook's listener was notified in this step
HookHears ==
    IF last'.published /\ received'[HookListener].count = 1
    THEN hookState' = state' /\ hookChain' = last'.config
    ELSE UNCHANGED <<hookState, hookChain>>

\* new FhevmClient(), subscribe(listener) and initialize({provider, chainId, ...})
\* up to the await: the client of a fresh attempt with the hook subscribed
FreshClientInitialized(c) ==
    /\ state' = InitializingState(NoProgress)
    /\ listeners' = <<HookListener>>
    /\ abortController' = 1
    /\ config' = c
    /\ initializationId' = 1
    /\ aborted' = [a \in Attempts |-> FALSE]
    /\ call' = [a \in Attempts |->
                   IF a = 1 THEN [status |-> "pending", config |-> c] ELSE NoCall]
    /\ resolverCalls' = 1
    /\ received' = [l \in ListenerIds |->
                       IF l = HookListener
                       THEN [count |-> 1, event |-> "initializing"]
                       ELSE NothingReceived]
    /\ listenerErrors' = <<>>
    /\ escaped' = FALSE
    /\ lastInitConfig' = c
    /\ destroyedSince' = FALSE
    /\ last' = [NoOp EXCEPT !.op = "initialize", !.attempt = 1, !.config = c,
                            !.from = "idle", !.published = TRUE]

\* the branch of the effect body for a render that is neither skipped nor
\* disabled: a client if the ref holds none, then initialize if the chain or
\* enabled changed or the client is not ready
EnabledBranch(o) ==
    /\ prevChainIdRef' = o.chainId
    /\ prevEnabledRef' = EnabledKey(o.enabled)
    /\ UNCHANGED isCleaningUpRef
    /\ clientRef' = TRUE
    /\ hasCleanup' = TRUE
    /\ FreshClientInitialized(o.chainId)
    /\ hookState' = state'
    /\ hookChain' = o.chainId

\* the branch for !enabled || !provider || !chainId
DisabledBranch(o) ==
    /\ hookState' = IdleState
    /\ hookChain' = Null
    /\ prevChainIdRef' = Null
    /\ prevEnabledRef' = EnabledKey(o.enabled)
    /\ clientRef' = FALSE
    /\ hasCleanup' = FALSE
    /\ UNCHANGED isCleaningUpRef
    /\ UNCHANGED vars

\* if (isCleaningUpRef.current) return, after a cleanup that destroyed the
\* client the ref held
SkippedAfterCleanup ==
    /\ isCleaningUpRef' = TRUE
    /\ clientRef' = FALSE
    /\ hasCleanup' = FALSE
    /\ Destroy
    /\ HookHears
    /\ UNCHANGED <<prevChainIdRef, prevEnabledRef>>

\* if (isCleaningUpRef.current) return, the flag still set by an earlier cleanup
SkippedStillCleaning ==
    /\ hasCleanup' = FALSE
    /\ UNCHANGED <<hookState, hookChain, clientRef, prevChainIdRef, prevEnabledRef,
                   isCleaningUpRef>>
    /\ UNCHANGED vars

\* a render with options o whose dependencies changed (or the first render):
\* the cleanup of the previous run of the effect, if it returned one, and
\* then the effect.  A run that returned the cleanup had put a client in the
\* ref, and one that did not left the ref empty
RenderEffect(o) ==
    /\ ~mounted \/ DepsChanged(o)
    /\ options' = o
    /\ mounted' = TRUE
    /\ IF hasCleanup THEN SkippedAfterCleanup
       ELSE IF isCleaningUpRef THEN SkippedStillCleaning
       ELSE IF ~o.enabled \/ ~o.provider \/ o.chainId = Null THEN DisabledBranch(o)
       ELSE EnabledBranch(o)
    /\ UNCHANGED exceptClientHook

\* setTimeout(() => { isCleaningUpRef.current = false }, 0) fires
TimerFires ==
    /\ isCleaningUpRef
    /\ isCleaningUpRef' = FALSE
    /\ UNCHANGED <<options, mounted, hookState, hookChain, clientRef, prevChainIdRef,
                   prevEnabledRef, hasCleanup>>
    /\ UNCHANGED vars
    /\ UNCHANGED exceptClientHook

\* a step of the client the ref holds, or of a resolver call one of the
\* hook's clients made: the hook's listener, if notified, sets the state
ClientStep(A) ==
    /\ mounted
    /\ A
    /\ HookHears
    /\ UNCHANGED <<options, mounted, clientRef, prevChainIdRef, prevEnabledRef,
                   isCleaningUpRef, hasCleanup>>
    /\ UNCHANGED exceptClientHook

\* the hook's refresh(): clientRef.current.refresh()
HookRefresh == clientRef /\ ClientStep(Refresh)

ClientHookNext ==
    \/ \E o \in OptionSets : RenderEffect(o)
    \/ TimerFires
    \/ HookRefresh
    \/ \E a \in Attempts, p \in ProgressStrings : ClientStep(ProgressCallback(a, p))
    \/ \E a \in Attempts : ClientStep(ResolverResolves(a))
    \/ \E a \in Attempts, thrown \in ThrownValues : ClientStep(ResolverThrows(a, thrown))

ClientHookSpec == Init /\ [][ClientHookNext]_allvars

\* the options name a chain, a provider and enabled
Usable(o) == o.enabled /\ o.provider /\ o.chainId # Null

\* C35: when chainId changes to another chain while enabled with a provider,
\* the effect creates a client and calls initialize with the new chain, and
\* the hook exposes the state of that attempt
C35_ChainChangeReinitializes ==
    [][(/\ mounted
        /\ Usable(options)
        /\ clientRef
        /\ Usable(options')
        /\ options'.chainId # options.chainId)
       => (/\ clientRef'
           /\ config' = options'.chainId
           /\ ResolverPending(initializationId)'
           /\ hookState' = InitializingState(NoProgress)
           /\ hookChain' = options'.chainId)]_cvars

\* C36: when enabled becomes false, or the provider or chainId goes missing,
\* after a client was created, that client is destroyed and the hook exposes
\* the idle state, without an instance
C36_DisablingResetsToIdle ==
    [][(/\ mounted
        /\ clientRef
        /\ options' # options
        /\ ~Usable(options'))
       => (/\ ~clientRef'
           /\ abortController' = Null
           /\ hookState' = IdleState)]_cvars

====
